---- MODULE Spec2Model ----
(***************************************************************************)
(* Name-addressed register access layer of the LoRa concentrator FPGA      *)
(* (util_spectral_scan/src/loragw_fpga_reg.c): the register table, the     *)
(* connection handle spi_target, and the scalar / burst register           *)
(* operations with their byte-level SPI transport calls; and the DBA       *)
(* object of esp32/mods/moddba.c with its calc() method.                   *)
(***************************************************************************)
EXTENDS Integers, Sequences, FiniteSets, TLC

(***************************************************************************)
(* Return codes and sizes declared by loragw_fpga_reg.h / loragw_fpga_spi.h *)
(***************************************************************************)
LGW_REG_SUCCESS == 0

LGW_REG_ERROR == -1

LGW_SPI_SUCCESS == 0

LGW_SPI_ERROR == -1

LGW_FPGA_TOTALREGS == 10

LGW_FPGA_VERSION == 1

FPGA_SPI_MUX_FPGA_REG == 1

FPGA_SPI_MUX_SX1272 == 3

NULL == 0

(***************************************************************************)
(* Bounds of the model                                                     *)
(***************************************************************************)
\* longest burst buffer a caller passes to reg_wb / reg_rb
MaxBurst == 2

\* calls of lgw_fpga_connect made beside concurrent writers
MaxConnects == 2

\* number of distinct handles the transport can hand out
MaxHandles == 2

(***************************************************************************)
(* Fixed-width integer arithmetic of the C code                            *)
(***************************************************************************)
Pow2(n) == 2 ^ n

\* (uint8_t)x
U8(x) == x % 256

\* (int8_t) reinterpretation of a byte
S8(b) == IF b >= 128 THEN b - 256 ELSE b

RECURSIVE BitAnd(_, _, _)
\* a & b on the low n bits
BitAnd(a, b, n) ==
    IF n = 0 THEN 0
    ELSE (a % 2) * (b % 2) + 2 * BitAnd(a \div 2, b \div 2, n - 1)

RECURSIVE BitOr(_, _, _)
\* a | b on the low n bits
BitOr(a, b, n) ==
    IF n = 0 THEN 0
    ELSE (IF (a % 2) + (b % 2) > 0 THEN 1 ELSE 0)
         + 2 * BitOr(a \div 2, b \div 2, n - 1)

\* (uint8_t)~b
Not8(b) == 255 - b

\* a uint32_t is kept as its 32 bits, least significant first
ZeroWord == [k \in 1..32 |-> 0]

\* u << n on a uint32_t: the bits shifted out are lost
Shl32(u, n) == [k \in 1..32 |-> IF k - n >= 1 THEN u[k - n] ELSE 0]

\* (uint32_t)b + u for a byte b and a word whose low 8 bits are clear
AddByte(u, b) == [k \in 1..32 |-> IF k <= 8 THEN (b \div Pow2(k - 1)) % 2 ELSE u[k]]

RECURSIVE LowBits(_, _)
\* value of bits 1..n of a word, n <= 31
LowBits(u, n) == IF n = 0 THEN 0 ELSE u[n] * Pow2(n - 1) + LowBits(u, n - 1)

\* (int32_t)u: two's complement reading of the 32 bits
ToInt32(u) ==
    IF u[32] = 1 THEN (LowBits(u, 31) - Pow2(30)) - Pow2(30) ELSE LowBits(u, 31)

\* x >> n on a signed int (arithmetic shift)
Sar(x, n) == x \div Pow2(n)

(***************************************************************************)
(* Register table                                                          *)
(***************************************************************************)
\* struct lgw_reg_s
Reg(page, addr, offs, sign, leng, rdon, dflt) ==
    [page |-> page, addr |-> addr, offs |-> offs, sign |-> sign,
     leng |-> leng, rdon |-> rdon, dflt |-> dflt]

\* the table as compiled in; entry k of the C array is element k + 1
fpga_regs_table ==
    << Reg(-1, 0, 0, FALSE, 1, FALSE, 0),       \* SOFT_RESET
       Reg(-1, 1, 0, FALSE, 8, TRUE, 18),       \* VERSION
       Reg(-1, 2, 0, FALSE, 8, TRUE, 0),        \* FPGA_STATUS
       Reg(-1, 3, 0, FALSE, 8, FALSE, 0),       \* FPGA_CTRL
       Reg(-1, 4, 0, FALSE, 8, FALSE, 0),       \* HISTO_RAM_ADDR
       Reg(-1, 5, 0, FALSE, 8, TRUE, 0),        \* HISTO_RAM_DATA
       Reg(-1, 6, 0, FALSE, 16, FALSE, 32000),  \* HISTO_TEMPO
       Reg(-1, 8, 0, FALSE, 16, FALSE, 1000),   \* HISTO_NB_READ
       Reg(-1, 10, 0, FALSE, 32, TRUE, 0),      \* TIMESTAMP
       Reg(-1, 127, 0, FALSE, 8, FALSE, 0) >>   \* SPI_MUX_CTRL

(***************************************************************************)
(* Diagnostics of the returning branch (the DEBUG_MSG texts)               *)
(***************************************************************************)
MSG_NONE == "none"

MSG_RANGE == "ERROR: REGISTER NUMBER OUT OF DEFINED RANGE"

MSG_UNCONNECTED == "ERROR: CONCENTRATOR UNCONNECTED"

MSG_RDONLY == "ERROR: TRYING TO WRITE A READ-ONLY REGISTER"

MSG_RDONLY_BURST == "ERROR: TRYING TO BURST WRITE A READ-ONLY REGISTER"

MSG_GEOMETRY == "ERROR: REGISTER SIZE AND OFFSET ARE NOT SUPPORTED"

MSG_SPI == "ERROR: SPI ERROR DURING REGISTER WRITE"

MSG_SPI_WB == "ERROR: SPI ERROR DURING REGISTER BURST WRITE"

MSG_SPI_RB == "ERROR: SPI ERROR DURING REGISTER BURST READ"

MSG_NULL_BURST == "ERROR: BURST OF NULL LENGTH"

MSG_NULL_POINTER == "ERROR: NULL POINTER AS ARGUMENT"

MSG_OPEN == "ERROR CONNECTING FPGA"

MSG_VERSION_READ == "ERROR READING VERSION REGISTER"

MSG_ABSENT == "ERROR: FPGA SEEMS DECONNECTED"

MSG_VERSION == "ERROR: NOT EXPECTED FPGA VERSION"

MSG_CONNECTED == "Note: success connecting the FPGA"

MSG_DISCONNECTED == "Note: success disconnecting the concentrator"

MSG_ALREADY == "WARNING: concentrator was already disconnected"

(***************************************************************************)
(* Scalar marshaling: the write path of lgw_fpga_reg_w                     *)
(***************************************************************************)
\* mutant of IsDirect: the direct write is never taken
IsDirect_Never(r) == FALSE

\* (r.leng == 8) && (r.offs == 0)
IsDirect(r) == r.leng = 8 /\ r.offs = 0

\* (r.offs + r.leng) <= 8
IsSubByte(r) == r.offs + r.leng <= 8

\* (r.offs == 0) && (r.leng > 0) && (r.leng <= 32)
IsMultiByte(r) == r.offs = 0 /\ r.leng > 0 /\ r.leng <= 32

\* buf[1] = ((1 << r.leng) - 1) << r.offs
BitMask(r) == U8((Pow2(r.leng) - 1) * Pow2(r.offs))

\* buf[2] = ((uint8_t)reg_value) << r.offs
NewData(r, reg_value) == U8(U8(reg_value) * Pow2(r.offs))

\* mutant of MixByte: the new data is not masked to the field
MixByte_Unmasked(r, old, reg_value) ==
    BitOr(BitAnd(Not8(BitMask(r)), old, 8), NewData(r, reg_value), 8)

\* buf[3] = (~buf[1] & buf[0]) | (buf[1] & buf[2])
MixByte(r, old, reg_value) ==
    BitOr(BitAnd(Not8(BitMask(r)), old, 8),
          BitAnd(BitMask(r), NewData(r, reg_value), 8), 8)

\* size_byte = (r.leng + 7) / 8
SizeByte(r) == (r.leng + 7) \div 8

RECURSIVE SplitBytes(_, _)
\* the loop filling buf[0..size_byte-1], least significant byte first
SplitBytes(reg_value, n) ==
    IF n = 0 THEN <<>>
    ELSE <<reg_value % 256>> \o SplitBytes(Sar(reg_value, 8), n - 1)

(***************************************************************************)
(* Scalar marshaling: the read path of lgw_fpga_reg_r                      *)
(***************************************************************************)
\* bufu[1] = bufu[0] << (8 - r.leng - r.offs)
LeftAlign(r, b) == U8(b * Pow2(8 - r.leng - r.offs))

\* mutant of ReadSubByte: the signed field is right-aligned without sign
\* extension
ReadSubByte_NoSignExt(r, b) == U8(LeftAlign(r, b) \div Pow2(8 - r.leng))

\* the value stored to *reg_value on the single-byte path
ReadSubByte(r, b) ==
    IF r.sign
    THEN S8(U8(Sar(S8(LeftAlign(r, b)), 8 - r.leng)))
    ELSE U8(LeftAlign(r, b) \div Pow2(8 - r.leng))

RECURSIVE AssembleWord(_, _, _)
\* for (i = size_byte-1; i >= 0; --i) u = bufu[i] + (u << 8)
AssembleWord(bufu, i, u) ==
    IF i < 0 THEN u
    ELSE AssembleWord(bufu, i - 1, AddByte(Shl32(u, 8), bufu[i + 1]))

\* mutant of ReadMultiByte: the signed word is returned without sign
\* extension
ReadMultiByte_NoSignExt(r, bufu) ==
    ToInt32(AssembleWord(bufu, SizeByte(r) - 1, ZeroWord))

\* the value stored to *reg_value on the multi-byte path
ReadMultiByte(r, bufu) ==
    LET u == AssembleWord(bufu, SizeByte(r) - 1, ZeroWord)
    IN  IF r.sign
        THEN Sar(ToInt32(Shl32(u, 32 - r.leng)), 32 - r.leng)
        ELSE ToInt32(u)

(***************************************************************************)
(* State                                                                   *)
(***************************************************************************)
VARIABLES
    fpga_regs,   \* the register table (const in the C code)
    spi_target,  \* the process-wide SPI handle, NULL when not connected
    live,        \* transport side: the handles opened and not yet closed
    dev,         \* device side: the bytes of the FPGA register space
    op,          \* the last call: its name and arguments
    ret,         \* its return value
    msg,         \* the diagnostic of the branch that returned
    calls,       \* the transport calls it made, in order
    out,         \* what it stored through its output pointer, if anything
    pre_dev,     \* dev as it was when the call started
    pre_spi,     \* spi_target as it was when the call started
    sx1272,      \* device side: the registers of the SX1272 behind the FPGA
    dba_obj,     \* the DBA object (moddba.c: dba_obj_t)
    dba_res,     \* the last calc() call on it: its buffer and its result
    callers,     \* concurrent callers of lgw_fpga_reg_w: position and locals
    connector,   \* the thread calling lgw_fpga_connect beside them
    bus          \* the transport calls of those threads, in the order made

vars == <<fpga_regs, spi_target, live, dev, op, ret, msg, calls, out,
          pre_dev, pre_spi, sx1272, dba_obj, dba_res, callers, connector, bus>>

\* the state of the dba module, which the register layer never touches
dba_vars == <<dba_obj, dba_res>>

\* the calls in progress in concurrent threads, which a call that runs
\* from entry to return in one step never touches
conc_vars == <<callers, connector, bus>>

Handles == 1..MaxHandles

\* the modelled window of the 7-bit register space: the low registers and
\* the last one, with room for a burst that starts there
DevAddrs == (0..19) \cup (127..(127 + MaxBurst))

(***************************************************************************)
(* The byte transport (loragw_fpga_spi), at its interface                  *)
(***************************************************************************)
\* one transport call of the trace
Call(fn, h, mux, addr, data, ok) ==
    [fn |-> fn, h |-> h, mux |-> mux, addr |-> addr, data |-> data, ok |-> ok]

\* the status a transport call returns
SpiStat(ok) == IF ok THEN LGW_SPI_SUCCESS ELSE LGW_SPI_ERROR

\* outcomes of a write of n bytes: done, or failed after k bytes reached
\* the device
WOutcomes(n, F) ==
    {[ok |-> TRUE, k |-> n]}
        \cup (IF FALSE \in F THEN {[ok |-> FALSE, k |-> j] : j \in 0..n} ELSE {})

\* outcomes of a read: done, or failed with the destination left as it was
ROutcomes(F) == F \cup {TRUE}

\* the same on handle h: a call on an absent handle fails and moves no byte
WOutcomesOn(h, n, F) ==
    IF h = NULL THEN {[ok |-> FALSE, k |-> 0]} ELSE WOutcomes(n, F)

ROutcomesOn(h, F) == IF h = NULL THEN {FALSE} ELSE ROutcomes(F)

\* the device after the first k bytes of data reached it from addr on
DevWrite(d, addr, data, k) ==
    [a \in DOMAIN d |->
        IF a >= addr /\ a < addr + k THEN data[a - addr + 1] ELSE d[a]]

\* n device bytes from addr on
DevRead(d, addr, n) == [i \in 1..n |-> d[addr + i - 1]]

\* the handle a successful open returns
NewHandle(open) == CHOOSE h \in Handles : h \notin open /\ \A g \in Handles \ open : h <= g

(***************************************************************************)
(* Bookkeeping of a call                                                   *)
(***************************************************************************)
Observe(o, r, m, cs, res) ==
    /\ op' = o
    /\ ret' = r
    /\ msg' = m
    /\ calls' = cs
    /\ out' = res
    /\ pre_dev' = dev
    /\ pre_spi' = spi_target

\* mutant of Reject: a refused call also drops the connection
Reject_Disconnects(o, m) ==
    /\ Observe(o, LGW_REG_ERROR, m, <<>>, <<>>)
    /\ spi_target' = NULL
    /\ UNCHANGED <<dba_vars, conc_vars, sx1272, fpga_regs, live, dev>>

\* an early return: nothing but the result
Reject(o, m) ==
    /\ Observe(o, LGW_REG_ERROR, m, <<>>, <<>>)
    /\ UNCHANGED <<dba_vars, conc_vars, sx1272, fpga_regs, spi_target, live, dev>>

\* the closing test on spi_stat
Status(spi_stat) == IF spi_stat # LGW_SPI_SUCCESS THEN LGW_REG_ERROR ELSE LGW_REG_SUCCESS

\* a pointer argument that points to storage of the caller
VALID_PTR == 1

\* pointer arguments: NULL or not
Pointers == {NULL, VALID_PTR}

\* a call: its name, its identifier or address, its value or size, the
\* bytes passed in, and its pointer argument (VALID_PTR when it has none)
OpRecPtr(name, id, value, data, ptr) ==
    [name |-> name, id |-> id, value |-> value, data |-> data, ptr |-> ptr]

OpRec(name, id, value, data) == OpRecPtr(name, id, value, data, VALID_PTR)

(***************************************************************************)
(* Guards shared by the register operations                               *)
(***************************************************************************)
\* mutant of IdOutOfRange: the identifier is tested only once a connection
\* is held
IdOutOfRange_AfterConnection(register_id) ==
    register_id >= LGW_FPGA_TOTALREGS /\ spi_target # NULL

\* register_id >= LGW_FPGA_TOTALREGS
IdOutOfRange(register_id) == register_id >= LGW_FPGA_TOTALREGS

\* mutant of Unconnected: the connection test is dropped
Unconnected_Dropped == FALSE

\* spi_target == NULL
Unconnected == spi_target = NULL

\* mutant of RdOnly: the read-only test is dropped
RdOnly_Dropped(r) == FALSE

\* r.rdon == 1
RdOnly(r) == r.rdon

(***************************************************************************)
(* lgw_fpga_connect                                                        *)
(***************************************************************************)
\* mutant of Handshake: only 0 counts as a floating bus
Handshake_ZeroOnly(u) ==
    IF u = 0 THEN MSG_ABSENT
    ELSE IF u # fpga_regs[LGW_FPGA_VERSION + 1].dflt THEN MSG_VERSION
    ELSE MSG_CONNECTED

\* the branch taken on the byte read from the version register
Handshake(u) ==
    IF u = 0 \/ u = 255 THEN MSG_ABSENT
    ELSE IF u # fpga_regs[LGW_FPGA_VERSION + 1].dflt THEN MSG_VERSION
    ELSE MSG_CONNECTED

lgw_fpga_connect(F) ==
    \E openOk \in ROutcomes(F), rdOk \in ROutcomes(F) :
        LET o == OpRec("connect", 0, 0, <<>>)
            closing == IF spi_target # NULL
                       THEN <<Call("close", spi_target, 0, 0, <<>>, TRUE)>>
                       ELSE <<>>
            live1 == IF spi_target # NULL THEN live \ {spi_target} ELSE live
            h == NewHandle(live1)
            vaddr == fpga_regs[LGW_FPGA_VERSION + 1].addr
            u == dev[vaddr]
        IN  IF ~openOk
            THEN /\ Observe(o, LGW_REG_ERROR, MSG_OPEN,
                            closing \o <<Call("open", NULL, 0, 0, <<>>, FALSE)>>, <<>>)
                 /\ live' = live1
                 /\ UNCHANGED <<dba_vars, conc_vars, sx1272, fpga_regs, spi_target, dev>>
            ELSE /\ spi_target' = h
                 /\ live' = live1 \cup {h}
                 /\ UNCHANGED <<dba_vars, conc_vars, sx1272, fpga_regs, dev>>
                 /\ LET cs == closing \o
                              << Call("open", h, 0, 0, <<>>, TRUE),
                                 Call("spi_r", h, FPGA_SPI_MUX_FPGA_REG, vaddr,
                                      IF rdOk THEN <<u>> ELSE <<>>, rdOk) >>
                    IN  IF ~rdOk
                        THEN Observe(o, LGW_REG_ERROR, MSG_VERSION_READ, cs, <<>>)
                        ELSE IF Handshake(u) # MSG_CONNECTED
                        THEN Observe(o, LGW_REG_ERROR, Handshake(u), cs, <<>>)
                        ELSE Observe(o, LGW_REG_SUCCESS, MSG_CONNECTED, cs, <<>>)

(***************************************************************************)
(* lgw_fpga_disconnect                                                     *)
(***************************************************************************)
lgw_fpga_disconnect ==
    LET o == OpRec("disconnect", 0, 0, <<>>)
    IN  IF spi_target # NULL
        THEN /\ Observe(o, LGW_REG_SUCCESS, MSG_DISCONNECTED,
                        <<Call("close", spi_target, 0, 0, <<>>, TRUE)>>, <<>>)
             /\ live' = live \ {spi_target}
             /\ spi_target' = NULL
             /\ UNCHANGED <<dba_vars, conc_vars, sx1272, fpga_regs, dev>>
        ELSE /\ Observe(o, LGW_REG_ERROR, MSG_ALREADY, <<>>, <<>>)
             /\ UNCHANGED <<dba_vars, conc_vars, sx1272, fpga_regs, spi_target, live, dev>>

(***************************************************************************)
(* lgw_fpga_reg_w                                                          *)
(***************************************************************************)
lgw_fpga_reg_w(Ids, Vals, F) ==
    \E register_id \in Ids, reg_value \in Vals :
        LET o == OpRec("reg_w", register_id, reg_value, <<>>)
        IN  IF IdOutOfRange(register_id) THEN Reject(o, MSG_RANGE)
            ELSE IF Unconnected THEN Reject(o, MSG_UNCONNECTED)
            ELSE LET r == fpga_regs[register_id + 1]
                 IN  IF RdOnly(r) THEN Reject(o, MSG_RDONLY)
                     ELSE IF IsDirect(r) THEN
                        \* direct write
                        \E w \in WOutcomes(1, F) :
                            LET b == U8(reg_value)
                                spi_stat == SpiStat(w.ok)
                            IN  /\ dev' = DevWrite(dev, r.addr, <<b>>, w.k)
                                /\ Observe(o, Status(spi_stat),
                                           IF w.ok THEN MSG_NONE ELSE MSG_SPI,
                                           <<Call("spi_w", spi_target, FPGA_SPI_MUX_FPGA_REG,
                                                  r.addr, <<b>>, w.ok)>>, <<>>)
                                /\ UNCHANGED <<dba_vars, conc_vars, sx1272, fpga_regs, spi_target, live>>
                     ELSE IF IsSubByte(r) THEN
                        \* single-byte read-modify-write
                        \E rdOk \in ROutcomes(F), w \in WOutcomes(1, F) :
                            LET buf0 == IF rdOk THEN dev[r.addr] ELSE 0
                                buf3 == MixByte(r, buf0, reg_value)
                                spi_stat == SpiStat(rdOk) + SpiStat(w.ok)
                            IN  /\ dev' = DevWrite(dev, r.addr, <<buf3>>, w.k)
                                /\ Observe(o, Status(spi_stat),
                                           IF spi_stat = LGW_SPI_SUCCESS THEN MSG_NONE ELSE MSG_SPI,
                                           << Call("spi_r", spi_target, FPGA_SPI_MUX_FPGA_REG,
                                                   r.addr, IF rdOk THEN <<buf0>> ELSE <<>>, rdOk),
                                              Call("spi_w", spi_target, FPGA_SPI_MUX_FPGA_REG,
                                                   r.addr, <<buf3>>, w.ok) >>, <<>>)
                                /\ UNCHANGED <<dba_vars, conc_vars, sx1272, fpga_regs, spi_target, live>>
                     ELSE IF IsMultiByte(r) THEN
                        \* multi-byte direct write in one burst
                        \E w \in WOutcomes(SizeByte(r), F) :
                            LET buf == SplitBytes(reg_value, SizeByte(r))
                                spi_stat == SpiStat(w.ok)
                            IN  /\ dev' = DevWrite(dev, r.addr, buf, w.k)
                                /\ Observe(o, Status(spi_stat),
                                           IF w.ok THEN MSG_NONE ELSE MSG_SPI,
                                           <<Call("spi_wb", spi_target, FPGA_SPI_MUX_FPGA_REG,
                                                  r.addr, buf, w.ok)>>, <<>>)
                                /\ UNCHANGED <<dba_vars, conc_vars, sx1272, fpga_regs, spi_target, live>>
                     ELSE Reject(o, MSG_GEOMETRY)

\* the device after a lgw_fpga_reg_w of reg_value to a writable register r
\* whose transport calls all succeed
DevAfterWrite(d, r, reg_value) ==
    IF IsDirect(r) THEN DevWrite(d, r.addr, <<U8(reg_value)>>, 1)
    ELSE IF IsSubByte(r)
    THEN DevWrite(d, r.addr, <<MixByte(r, d[r.addr], reg_value)>>, 1)
    ELSE IF IsMultiByte(r)
    THEN DevWrite(d, r.addr, SplitBytes(reg_value, SizeByte(r)), SizeByte(r))
    ELSE d

(***************************************************************************)
(* lgw_fpga_reg_r                                                          *)
(***************************************************************************)
lgw_fpga_reg_r(Ids, Ptrs, F) ==
    \E register_id \in Ids, reg_value \in Ptrs :
        LET o == OpRecPtr("reg_r", register_id, 0, <<>>, reg_value)
        IN  IF reg_value = NULL THEN Reject(o, MSG_NULL_POINTER)
            ELSE IF IdOutOfRange(register_id) THEN Reject(o, MSG_RANGE)
            ELSE IF Unconnected THEN Reject(o, MSG_UNCONNECTED)
            ELSE LET r == fpga_regs[register_id + 1]
                 IN  IF IsSubByte(r) THEN
                        \E rdOk \in ROutcomes(F) :
                            LET bufu0 == IF rdOk THEN dev[r.addr] ELSE 0
                            IN  /\ Observe(o, Status(SpiStat(rdOk)),
                                           IF rdOk THEN MSG_NONE ELSE MSG_SPI,
                                           <<Call("spi_r", spi_target, FPGA_SPI_MUX_FPGA_REG,
                                                  r.addr, IF rdOk THEN <<bufu0>> ELSE <<>>, rdOk)>>,
                                           <<ReadSubByte(r, bufu0)>>)
                                /\ UNCHANGED <<dba_vars, conc_vars, sx1272, fpga_regs, spi_target, live, dev>>
                     ELSE IF IsMultiByte(r) THEN
                        \E rdOk \in ROutcomes(F) :
                            LET got == IF rdOk THEN DevRead(dev, r.addr, SizeByte(r)) ELSE <<>>
                                bufu == [i \in 1..4 |-> IF i <= Len(got) THEN got[i] ELSE 0]
                            IN  /\ Observe(o, Status(SpiStat(rdOk)),
                                           IF rdOk THEN MSG_NONE ELSE MSG_SPI,
                                           <<Call("spi_rb", spi_target, FPGA_SPI_MUX_FPGA_REG,
                                                  r.addr, got, rdOk)>>,
                                           <<ReadMultiByte(r, bufu)>>)
                                /\ UNCHANGED <<dba_vars, conc_vars, sx1272, fpga_regs, spi_target, live, dev>>
                     ELSE Reject(o, MSG_GEOMETRY)

(***************************************************************************)
(* lgw_fpga_reg_wb                                                         *)
(***************************************************************************)
\* mutant of lgw_fpga_reg_wb: every byte is masked to the descriptor's field
lgw_fpga_reg_wb_Masked(Ids, Ptrs, Datas, F) ==
    \E register_id \in Ids, ptr \in Ptrs, data \in Datas :
        LET size == Len(data)
            o == OpRecPtr("reg_wb", register_id, size,
                          IF ptr = NULL THEN <<>> ELSE data, ptr)
        IN  IF ptr = NULL THEN Reject(o, MSG_NULL_POINTER)
            ELSE IF size = 0 THEN Reject(o, MSG_NULL_BURST)
            ELSE IF IdOutOfRange(register_id) THEN Reject(o, MSG_RANGE)
            ELSE IF Unconnected THEN Reject(o, MSG_UNCONNECTED)
            ELSE LET r == fpga_regs[register_id + 1]
                     sent == [i \in 1..size |-> BitAnd(BitMask(r), data[i], 8)]
                 IN  IF RdOnly(r) THEN Reject(o, MSG_RDONLY_BURST)
                     ELSE \E w \in WOutcomes(size, F) :
                            /\ dev' = DevWrite(dev, r.addr, sent, w.k)
                            /\ Observe(o, Status(SpiStat(w.ok)),
                                       IF w.ok THEN MSG_NONE ELSE MSG_SPI_WB,
                                       <<Call("spi_wb", spi_target, FPGA_SPI_MUX_FPGA_REG,
                                              r.addr, sent, w.ok)>>, <<>>)
                            /\ UNCHANGED <<dba_vars, conc_vars, sx1272, fpga_regs, spi_target, live>>

lgw_fpga_reg_wb(Ids, Ptrs, Datas, F) ==
    \E register_id \in Ids, ptr \in Ptrs, data \in Datas :
        LET size == Len(data)
            o == OpRecPtr("reg_wb", register_id, size,
                          IF ptr = NULL THEN <<>> ELSE data, ptr)
        IN  IF ptr = NULL THEN Reject(o, MSG_NULL_POINTER)
            ELSE IF size = 0 THEN Reject(o, MSG_NULL_BURST)
            ELSE IF IdOutOfRange(register_id) THEN Reject(o, MSG_RANGE)
            ELSE IF Unconnected THEN Reject(o, MSG_UNCONNECTED)
            ELSE LET r == fpga_regs[register_id + 1]
                 IN  IF RdOnly(r) THEN Reject(o, MSG_RDONLY_BURST)
                     ELSE \E w \in WOutcomes(size, F) :
                            /\ dev' = DevWrite(dev, r.addr, data, w.k)
                            /\ Observe(o, Status(SpiStat(w.ok)),
                                       IF w.ok THEN MSG_NONE ELSE MSG_SPI_WB,
                                       <<Call("spi_wb", spi_target, FPGA_SPI_MUX_FPGA_REG,
                                              r.addr, data, w.ok)>>, <<>>)
                            /\ UNCHANGED <<dba_vars, conc_vars, sx1272, fpga_regs, spi_target, live>>

(***************************************************************************)
(* lgw_fpga_reg_rb                                                         *)
(***************************************************************************)
lgw_fpga_reg_rb(Ids, Ptrs, Sizes, F) ==
    \E register_id \in Ids, data \in Ptrs, size \in Sizes :
        LET o == OpRecPtr("reg_rb", register_id, size, <<>>, data)
        IN  IF data = NULL THEN Reject(o, MSG_NULL_POINTER)
            ELSE IF size = 0 THEN Reject(o, MSG_NULL_BURST)
            ELSE IF IdOutOfRange(register_id) THEN Reject(o, MSG_RANGE)
            ELSE IF Unconnected THEN Reject(o, MSG_UNCONNECTED)
            ELSE LET r == fpga_regs[register_id + 1]
                 IN  \E rdOk \in ROutcomes(F) :
                        LET got == IF rdOk THEN DevRead(dev, r.addr, size) ELSE <<>>
                        IN  /\ Observe(o, Status(SpiStat(rdOk)),
                                       IF rdOk THEN MSG_NONE ELSE MSG_SPI_RB,
                                       <<Call("spi_rb", spi_target, FPGA_SPI_MUX_FPGA_REG,
                                              r.addr, got, rdOk)>>, got)
                            /\ UNCHANGED <<dba_vars, conc_vars, sx1272, fpga_regs, spi_target, live, dev>>

(***************************************************************************)
(* lgw_sx1272_reg_w / lgw_sx1272_reg_r: byte access to the SX1272          *)
(***************************************************************************)
\* the modelled register of the SX1272
SxAddrs == {1}

lgw_sx1272_reg_w(Addrs, Vals, F) ==
    \E address \in Addrs, reg_value \in Vals :
        \E w \in WOutcomesOn(spi_target, 1, F) :
            /\ sx1272' = DevWrite(sx1272, address, <<reg_value>>, w.k)
            /\ Observe(OpRec("sx1272_reg_w", address, reg_value, <<>>),
                       SpiStat(w.ok), MSG_NONE,
                       <<Call("spi_w", spi_target, FPGA_SPI_MUX_SX1272,
                              address, <<reg_value>>, w.ok)>>, <<>>)
            /\ UNCHANGED <<dba_vars, conc_vars, fpga_regs, spi_target, live, dev>>

lgw_sx1272_reg_r(Addrs, F) ==
    \E address \in Addrs :
        \E rdOk \in ROutcomesOn(spi_target, F) :
            LET got == IF rdOk THEN <<sx1272[address]>> ELSE <<>>
            IN  /\ Observe(OpRec("sx1272_reg_r", address, 0, <<>>),
                           SpiStat(rdOk), MSG_NONE,
                           <<Call("spi_r", spi_target, FPGA_SPI_MUX_SX1272,
                                  address, got, rdOk)>>, got)
                /\ UNCHANGED <<dba_vars, conc_vars, sx1272, fpga_regs, spi_target, live, dev>>

(***************************************************************************)
(* Single-precision arithmetic (the C type float of moddba.c): IEEE 754    *)
(* binary32, every operation rounded to nearest, ties to even.  A product  *)
(* that is added to in the same expression may be contracted by the        *)
(* compiler into one fused multiply-add, rounded once (F32Fma).            *)
(*                                                                         *)
(* A float is a record: k = "num" for the finite values, whose value is    *)
(* (-1)^s * m * 2^e with m = 0 (zero, e = 0), 2^23 <= m < 2^24 (normal,    *)
(* -149 <= e <= 104) or 0 < m < 2^23 and e = -149 (subnormal); k = "inf"   *)
(* for the infinities; k = "nan" for a NaN.                                *)
(***************************************************************************)
F32(k, s, m, e) == [k |-> k, s |-> s, m |-> m, e |-> e]

F32Zero(s) == F32("num", s, 0, 0)

F32Inf(s) == F32("inf", s, 0, 0)

F32NaN == F32("nan", 0, 0, 0)

\* the exponent of the last bit of the smallest subnormal and of the
\* largest finite float
F32MinExp == -149

F32MaxExp == 104

RECURSIVE BitLen(_)
\* the number of bits of n >= 0
BitLen(n) == IF n = 0 THEN 0 ELSE 1 + BitLen(n \div 2)

\* the float nearest to (-1)^s * (M + f) * 2^E, where 0 < M < 2^31 and
\* 0 <= f < 1, f # 0 iff sticky; a non-zero f comes with M >= 2^25
F32Round(s, M, E, sticky) ==
    LET L == BitLen(M)
        byLen == L - 24
        byExp == F32MinExp - E
        drop == IF byLen >= byExp THEN byLen ELSE byExp
        pack(m, e) == IF m = 0 THEN F32Zero(s)
                      ELSE IF e > F32MaxExp THEN F32Inf(s)
                      ELSE F32("num", s, m, e)
    IN  IF drop <= 0 THEN pack(M * Pow2(-drop), E + drop)
        ELSE IF drop >= 32 THEN F32Zero(s)
        ELSE IF drop = 31
        THEN (IF M > Pow2(30) \/ (M = Pow2(30) /\ sticky)
              THEN pack(1, E + drop) ELSE F32Zero(s))
        ELSE LET q == M \div Pow2(drop)
                 r == M % Pow2(drop)
                 half == Pow2(drop - 1)
                 up == r > half \/ (r = half /\ (sticky \/ q % 2 = 1))
                 q1 == IF up THEN q + 1 ELSE q
             IN  IF q1 = Pow2(24) THEN pack(Pow2(23), E + drop + 1)
                 ELSE pack(q1, E + drop)

\* a finite non-zero float with its significand brought to 24 bits, the
\* exponent left free to go below F32MinExp
F32Norm(x) ==
    LET up == 24 - BitLen(x.m)
    IN  [m |-> x.m * Pow2(up), e |-> x.e - up]

\* -x
F32Neg(x) == IF x.k = "nan" THEN x ELSE [x EXCEPT !.s = 1 - @]

\* (float)n for an int32 n
F32FromInt(n) ==
    IF n = 0 THEN F32Zero(0)
    ELSE IF n = -2147483647 - 1 THEN F32("num", 1, Pow2(23), 8)
    ELSE IF n < 0 THEN F32Round(1, -n, 0, FALSE)
    ELSE F32Round(0, n, 0, FALSE)

\* x + y
F32Add(x, y) ==
    IF x.k = "nan" \/ y.k = "nan" THEN F32NaN
    ELSE IF x.k = "inf"
    THEN (IF y.k = "inf" /\ y.s # x.s THEN F32NaN ELSE x)
    ELSE IF y.k = "inf" THEN y
    ELSE IF x.m = 0 /\ y.m = 0 THEN F32Zero(IF x.s = 1 /\ y.s = 1 THEN 1 ELSE 0)
    ELSE IF x.m = 0 THEN y
    ELSE IF y.m = 0 THEN x
    ELSE LET hi == IF x.e >= y.e THEN x ELSE y
             lo == IF x.e >= y.e THEN y ELSE x
             d == hi.e - lo.e
         IN  IF d <= 6
             THEN \* both on the exponent of lo: the sum is exact
                  LET A == hi.m * Pow2(d)
                      B == lo.m
                  IN  IF hi.s = lo.s THEN F32Round(hi.s, A + B, lo.e, FALSE)
                      ELSE IF A = B THEN F32Zero(0)
                      ELSE IF A > B THEN F32Round(hi.s, A - B, lo.e, FALSE)
                      ELSE F32Round(lo.s, B - A, lo.e, FALSE)
             ELSE \* hi is normal; lo is cut six bits below the last bit of hi
                  LET A == hi.m * Pow2(6)
                      cut == d - 6
                      B == IF cut >= 24 THEN 0 ELSE lo.m \div Pow2(cut)
                      sticky == IF cut >= 24 THEN TRUE ELSE lo.m % Pow2(cut) # 0
                  IN  IF hi.s = lo.s THEN F32Round(hi.s, A + B, hi.e - 6, sticky)
                      ELSE IF sticky THEN F32Round(hi.s, A - B - 1, hi.e - 6, TRUE)
                      ELSE F32Round(hi.s, A - B, hi.e - 6, FALSE)

\* x - y
F32Sub(x, y) == F32Add(x, F32Neg(y))

\* the 48-bit product of two 24-bit significands: the pair of its low and
\* its high 24 bits
F32Product(mx, my) ==
    LET a1 == mx \div 4096
        a0 == mx % 4096
        b1 == my \div 4096
        b0 == my % 4096
        mid == a1 * b0 + a0 * b1
        t == a0 * b0 + (mid % 4096) * 4096
    IN  <<t % Pow2(24), a1 * b1 + (mid \div 4096) + (t \div Pow2(24))>>

\* x * y
F32Mul(x, y) ==
    LET s == IF x.s = y.s THEN 0 ELSE 1
    IN  IF x.k = "nan" \/ y.k = "nan" THEN F32NaN
        ELSE IF x.k = "inf" \/ y.k = "inf"
        THEN (IF (x.k = "num" /\ x.m = 0) \/ (y.k = "num" /\ y.m = 0)
              THEN F32NaN ELSE F32Inf(s))
        ELSE IF x.m = 0 \/ y.m = 0 THEN F32Zero(s)
        ELSE LET nx == F32Norm(x)
                 ny == F32Norm(y)
                 P == F32Product(nx.m, ny.m)
                 low == P[1]
                 high == P[2]
             IN  \* the product is high * 2^24 + low, high >= 2^22
                 F32Round(s, high * 64 + (low \div Pow2(18)),
                          nx.e + ny.e + 18, low % Pow2(18) # 0)

RECURSIVE F32DivBits(_, _, _, _)
\* n more bits of the quotient q of remainder r by d, r < d: the pair of
\* the quotient and whether a remainder is left
F32DivBits(q, r, d, n) ==
    IF n = 0 THEN <<q, r # 0>>
    ELSE IF 2 * r >= d THEN F32DivBits(2 * q + 1, 2 * r - d, d, n - 1)
    ELSE F32DivBits(2 * q, 2 * r, d, n - 1)

\* x / y
F32Div(x, y) ==
    LET s == IF x.s = y.s THEN 0 ELSE 1
    IN  IF x.k = "nan" \/ y.k = "nan" THEN F32NaN
        ELSE IF x.k = "inf" THEN (IF y.k = "inf" THEN F32NaN ELSE F32Inf(s))
        ELSE IF y.k = "inf" THEN F32Zero(s)
        ELSE IF y.m = 0 THEN (IF x.m = 0 THEN F32NaN ELSE F32Inf(s))
        ELSE IF x.m = 0 THEN F32Zero(s)
        ELSE LET nx == F32Norm(x)
                 ny == F32Norm(y)
                 Q == F32DivBits(nx.m \div ny.m, nx.m % ny.m, ny.m, 26)
             IN  \* Q[1] = floor(nx.m * 2^26 / ny.m) >= 2^25
                 F32Round(s, Q[1], nx.e - ny.e - 26, Q[2])

\* Naturals of up to 96 bits, for the unrounded sum of a fused
\* multiply-add: tuples of four 24-bit words, the least significant first.
\* Word i of b, 0 outside it
BigWord(b, i) == IF i >= 1 /\ i <= 4 THEN b[i] ELSE 0

\* b * 2^k, for a result below 2^96
BigShl(b, k) ==
    LET q == k \div 24
        r == k % 24
    IN  [i \in 1..4 |-> (BigWord(b, i - q) % Pow2(24 - r)) * Pow2(r)
                            + (BigWord(b, i - q - 1) \div Pow2(24 - r))]

\* b \div 2^k
BigShr(b, k) ==
    LET q == k \div 24
        r == k % 24
    IN  [i \in 1..4 |-> (BigWord(b, i + q) \div Pow2(r))
                            + (BigWord(b, i + q + 1) % Pow2(r)) * Pow2(24 - r)]

\* b % 2^k = 0
BigLowZero(b, k) ==
    /\ \A i \in 1..4 : i <= k \div 24 => b[i] = 0
    /\ BigWord(b, (k \div 24) + 1) % Pow2(k % 24) = 0

\* a + b
BigAdd(a, b) ==
    LET s1 == a[1] + b[1]
        s2 == a[2] + b[2] + (s1 \div Pow2(24))
        s3 == a[3] + b[3] + (s2 \div Pow2(24))
        s4 == a[4] + b[4] + (s3 \div Pow2(24))
    IN  <<s1 % Pow2(24), s2 % Pow2(24), s3 % Pow2(24), s4>>

\* a - b, for a >= b
BigSub(a, b) ==
    LET d1 == a[1] - b[1]
        d2 == a[2] - b[2] - (IF d1 < 0 THEN 1 ELSE 0)
        d3 == a[3] - b[3] - (IF d2 < 0 THEN 1 ELSE 0)
        d4 == a[4] - b[4] - (IF d3 < 0 THEN 1 ELSE 0)
        w(d) == IF d < 0 THEN d + Pow2(24) ELSE d
    IN  <<w(d1), w(d2), w(d3), d4>>

\* a < b
BigLess(a, b) ==
    \E i \in 1..4 : a[i] < b[i] /\ \A j \in (i + 1)..4 : a[j] = b[j]

\* the float nearest to (-1)^r.s * (r.b + f) * 2^r.e, where 0 <= f < 1 and
\* f # 0 iff r.sticky; r.b = 0 comes with r.s = 0 and no f, a non-zero f
\* with r.b >= 2^25
BigRound(r) ==
    LET L == IF r.b[4] # 0 THEN 72 + BitLen(r.b[4])
             ELSE IF r.b[3] # 0 THEN 48 + BitLen(r.b[3])
             ELSE IF r.b[2] # 0 THEN 24 + BitLen(r.b[2])
             ELSE BitLen(r.b[1])
        drop == IF L > 30 THEN L - 30 ELSE 0
        top == BigShr(r.b, drop)
    IN  F32Round(r.s, top[1] + top[2] * Pow2(24), r.e + drop,
                 r.sticky \/ ~BigLowZero(r.b, drop))

\* the unrounded x * y + z for finite x, y, z with x * y # 0, in the form
\* BigRound takes
F32FmaSum(x, y, z) ==
    LET sp == IF x.s = y.s THEN 0 ELSE 1
        P == F32Product(F32Norm(x).m, F32Norm(y).m)
        ep == F32Norm(x).e + F32Norm(y).e
        \* the product is (P[2] * 2^24 + P[1]) * 2^ep, P[2] >= 2^22
        nz == F32Norm(z)
        base == IF nz.e < ep THEN nz.e ELSE ep
        PB == BigShl(<<P[1], P[2], 0, 0>>, ep - base)
        ZB == BigShl(<<nz.m, 0, 0, 0>>, nz.e - base)
        sum(s, b, e, sticky) == [s |-> s, b |-> b, e |-> e, sticky |-> sticky]
    IN  IF z.m = 0 THEN sum(sp, <<P[1], P[2], 0, 0>>, ep, FALSE)
        ELSE IF nz.e >= ep + 54
        THEN \* the product lies below the sixth bit after z
             IF z.s = sp THEN sum(z.s, BigShl(<<nz.m, 0, 0, 0>>, 6), nz.e - 6, TRUE)
             ELSE sum(z.s, BigSub(BigShl(<<nz.m, 0, 0, 0>>, 6), <<1, 0, 0, 0>>),
                      nz.e - 6, TRUE)
        ELSE IF nz.e + 24 <= ep
        THEN \* z lies below the last bit of the product
             IF z.s = sp THEN sum(sp, <<P[1], P[2], 0, 0>>, ep, TRUE)
             ELSE sum(sp, BigSub(<<P[1], P[2], 0, 0>>, <<1, 0, 0, 0>>), ep, TRUE)
        ELSE IF z.s = sp THEN sum(sp, BigAdd(PB, ZB), base, FALSE)
        ELSE IF PB = ZB THEN sum(0, <<0, 0, 0, 0>>, base, FALSE)
        ELSE IF BigLess(PB, ZB) THEN sum(z.s, BigSub(ZB, PB), base, FALSE)
        ELSE sum(sp, BigSub(PB, ZB), base, FALSE)

\* x * y + z rounded once: the fused multiply-add of the FPU (madd.s, fmaf)
F32Fma(x, y, z) ==
    IF x.k = "nan" \/ y.k = "nan" \/ z.k = "nan" THEN F32NaN
    ELSE IF x.k = "inf" \/ y.k = "inf"
    THEN (IF (x.k = "num" /\ x.m = 0) \/ (y.k = "num" /\ y.m = 0)
          THEN F32NaN
          ELSE IF z.k = "inf" /\ z.s # (IF x.s = y.s THEN 0 ELSE 1) THEN F32NaN
          ELSE F32Inf(IF x.s = y.s THEN 0 ELSE 1))
    ELSE IF z.k = "inf" THEN z
    ELSE IF x.m = 0 \/ y.m = 0
    THEN (IF z.m # 0 THEN z
          ELSE F32Zero(IF x.s # y.s /\ z.s = 1 THEN 1 ELSE 0))
    ELSE BigRound(F32FmaSum(x, y, z))

(***************************************************************************)
(* esp32/mods/moddba.c: the DBA object and its calc() method.              *)
(*                                                                         *)
(* The object is the struct dba_obj_t: its float members are floats as     *)
(* above, its arrays have the sizes of the struct, its uint32_t members    *)
(* are kept as the int32 of the same 32 bits (a value v >= 2^31 is kept as *)
(* v - 2^32) and compared as unsigned.  A store outside an array, or a     *)
(* constructor call that overruns its temporaries, is undefined: the       *)
(* object is then marked wild, nothing more is known about its members or  *)
(* about what calc() returns.  The allocator is not part of the sources:   *)
(* an array element holds no specified value until the code stores one.    *)
(* Whether an execution of a statement acc += p * q rounds the product     *)
(* before the sum or is one fused multiply-add is the compiler's choice,   *)
(* made for each pass of a loop it compiles apart (unrolled, peeled or     *)
(* vectorised passes), so the filter operators give the set of the objects *)
(* the builds can produce.                                                 *)
(***************************************************************************)
RESOLUTION_16_BIT == 0

RESOLUTION_24_BIT == 1

MAX_NUMBER_COEFF_A == 7

MAX_NUMBER_COEFF_B == 7

\* (uint16_t)x
U16(x) == x % 65536

\* (int16_t) reinterpretation of two bytes
S16(x) == IF x >= 32768 THEN x - 65536 ELSE x

\* a >= b on uint32_t
U32Geq(a, b) == IF (a < 0) = (b < 0) THEN a >= b ELSE a < 0

\* a + n on uint32_t, for 0 <= n < 2^16
U32Add(a, n) ==
    IF a >= 0 /\ a > 2147483647 - n
    THEN ((a - 2147483647) - 1) + ((n - 2147483647) - 1)
    ELSE a + n

\* a bytearray of len bytes whose contents repeat the four bytes of pat
Buffer(len, pat) == [len |-> len, pat |-> pat]

\* byte k of the bytearray
BufByte(buf, k) == buf.pat[(k % 4) + 1]

\* (int32_t)buf_in_16[i]
Sample16(buf, i) == S16(BufByte(buf, 2 * i) + 256 * BufByte(buf, 2 * i + 1))

\* buf_in_32[i] >> 8
Sample24(buf, i) ==
    BufByte(buf, 4 * i + 1) + 256 * BufByte(buf, 4 * i + 2)
        + 65536 * S8(BufByte(buf, 4 * i + 3))

\* mp_obj_get_float of a Python int
mp_obj_get_float(n) == F32FromInt(n)

\* what an array element holds before the code stores a value in it
F32Unspecified == F32("unspecified", 0, 0, 0)

\* the arrays of the object as allocated, m_new_obj(dba_obj_t)
m_new_obj ==
    [x |-> [i \in 0..(MAX_NUMBER_COEFF_B - 1) |-> F32Unspecified],
     y |-> [i \in 0..(MAX_NUMBER_COEFF_A - 2) |-> F32Unspecified],
     a |-> [i \in 0..(2 * (MAX_NUMBER_COEFF_A - 1) - 2) |-> F32Unspecified],
     b |-> [i \in 0..(2 * MAX_NUMBER_COEFF_B - 2) |-> F32Unspecified]]

\* the object dba_make_new returns for DBA(samples, resolution, coeffa,
\* coeffb), coeffa and coeffb sequences of Python ints
dba_make_new(samples, resolution, coeffa, coeffb) ==
    LET na == Len(coeffa) - 1
        nb == Len(coeffb)
        a0 == mp_obj_get_float(coeffa[1])
        \* a0 read before it is written and a loop that never ends, or
        \* coeff_a_temp / coeff_b_temp overrun
        overrun == \/ Len(coeffa) = 0
                   \/ Len(coeffa) > MAX_NUMBER_COEFF_A
                   \/ Len(coeffb) > MAX_NUMBER_COEFF_B
    IN  [refampl |-> IF resolution = RESOLUTION_24_BIT THEN 420426 ELSE 1642,
         num_samples_total |-> samples,
         resolution |-> resolution,
         x |-> [i \in DOMAIN m_new_obj.x |->
                 IF ~overrun /\ i < nb THEN F32Zero(0) ELSE m_new_obj.x[i]],
         y |-> [i \in DOMAIN m_new_obj.y |->
                 IF ~overrun /\ i < na THEN F32Zero(0) ELSE m_new_obj.y[i]],
         a |-> [i \in DOMAIN m_new_obj.a |->
                 IF ~overrun /\ i < 2 * na - 1
                 THEN F32Div(mp_obj_get_float(
                                 coeffa[((2 * na - 2 - i) % na) + 2]), a0)
                 ELSE m_new_obj.a[i]],
         b |-> [i \in DOMAIN m_new_obj.b |->
                 IF ~overrun /\ i < 2 * nb - 1
                 THEN F32Div(mp_obj_get_float(
                                 coeffb[((2 * nb - 1 - i) % nb) + 1]), a0)
                 ELSE m_new_obj.b[i]],
         num_coeff_b |-> U8(nb),
         num_coeff_a |-> U8(na),
         i_a |-> 0,
         i_b |-> 0,
         sum_sqr |-> F32Zero(0),
         running_sample_count |-> 0,
         wild |-> overrun]

\* the outcomes of acc += p * q: the product rounded and then the sum, or
\* the two contracted into one fused multiply-add
MulAdd(acc, p, q) == {F32Add(acc, F32Mul(p, q)), F32Fma(p, q, acc)}

RECURSIVE Terms(_, _, _, _)
\* terms = 0; for (i = 0; i < n; i++) terms += h[i] * shift[i], shift = &c[from]:
\* the values terms can have after the loop
Terms(h, c, from, n) ==
    IF n = 0 THEN {F32Zero(0)}
    ELSE UNION {MulAdd(acc, h[n - 1], c[from + n - 1]) :
                    acc \in Terms(h, c, from, n - 1)}

\* the end of a pass of the sample loop: filtered is stored and squared,
\* the indices move on
FilterStore(self, x1, filtered) ==
    {[self EXCEPT
        !.x = x1,
        !.y = [self.y EXCEPT ![self.i_a] = filtered],
        !.i_b = IF U8(self.i_b + 1) = self.num_coeff_b
                THEN 0 ELSE U8(self.i_b + 1),
        !.i_a = IF U8(self.i_a + 1) = self.num_coeff_a
                THEN 0 ELSE U8(self.i_a + 1),
        !.sum_sqr = sum_sqr] :
     sum_sqr \in MulAdd(self.sum_sqr, filtered, filtered)}

\* a pass would read an array element that no statement has stored
ReadsUnspecified(self) ==
    \/ \E i \in 0..(self.num_coeff_b - 1) :
          \/ i # self.i_b /\ self.x[i] = F32Unspecified
          \/ self.b[self.num_coeff_b - self.i_b - 1 + i] = F32Unspecified
    \/ \E i \in 0..(self.num_coeff_a - 1) :
          \/ self.y[i] = F32Unspecified
          \/ self.a[self.num_coeff_a - self.i_a - 1 + i] = F32Unspecified

\* one pass of the sample loop of dba_calc: the objects it can leave
FilterStep(self, sample) ==
    IF self.wild THEN {self}
    ELSE IF self.i_b \notin DOMAIN self.x \/ self.i_a \notin DOMAIN self.y
    THEN \* x[i_b] or y[i_a] is stored outside the array
         {[self EXCEPT !.wild = TRUE]}
    ELSE IF ReadsUnspecified(self)
    THEN \* the terms are sums over values of which nothing is known
         {[self EXCEPT !.wild = TRUE]}
    ELSE LET x1 == [self.x EXCEPT ![self.i_b] = F32FromInt(sample)]
         IN  UNION {FilterStore(self, x1, F32Sub(b_a[1], b_a[2])) :
                        b_a \in Terms(x1, self.b,
                                      self.num_coeff_b - self.i_b - 1,
                                      self.num_coeff_b)
                                \X Terms(self.y, self.a,
                                         self.num_coeff_a - self.i_a - 1,
                                         self.num_coeff_a)}

RECURSIVE FilterLoop(_, _, _, _)
\* for (uint16_t i = 0; i < num_samples_in; i++): the objects the loop can
\* leave
FilterLoop(self, buf, i, num_samples_in) ==
    IF i >= num_samples_in THEN {self}
    ELSE UNION {FilterLoop(s, buf, i + 1, num_samples_in) :
                    s \in FilterStep(self, IF self.resolution = RESOLUTION_24_BIT
                                           THEN Sample24(buf, i)
                                           ELSE Sample16(buf, i))}

\* uint16_t num_samples_in
NumSamplesIn(self, buf) ==
    IF self.resolution = RESOLUTION_24_BIT
    THEN U16(buf.len \div 4)
    ELSE U16(buf.len \div 2)

\* what calc() returns: None, or the float computed from the sum of
\* squares, the sample count and the reference amplitude
mp_const_none ==
    [is_none |-> TRUE, sum_sqr |-> F32Zero(0), count |-> 0, refampl |-> 0]

mp_obj_new_float(sum_sqr, count, refampl) ==
    [is_none |-> FALSE, sum_sqr |-> sum_sqr, count |-> count,
     refampl |-> refampl]

\* what calc() may return on a wild object: None, or a float of which
\* nothing is known
WildResults == {mp_const_none, mp_obj_new_float(F32NaN, 0, 0)}

\* the last calc() call: its buffer, its result, the running count it
\* started from, and the number of calls made so far
CalcRec(buf, result, pre_count, n) ==
    [buf |-> buf, ret |-> result, pre_count |-> pre_count, ncalls |-> n]

\* the state of the register layer, which calc() never touches
reg_vars == <<fpga_regs, spi_target, live, dev, op, ret, msg, calls, out,
              pre_dev, pre_spi, sx1272, conc_vars>>

dba_calc(Bufs) ==
    \E buf \in Bufs :
      \E s1 \in FilterLoop(dba_obj, buf, 0, NumSamplesIn(dba_obj, buf)) :
        LET num_samples_in == NumSamplesIn(dba_obj, buf)
            s2 == [s1 EXCEPT !.running_sample_count = U32Add(@, num_samples_in)]
            rec(result) == CalcRec(buf, result, dba_obj.running_sample_count,
                                   dba_res.ncalls + 1)
        IN  /\ IF s1.wild
               THEN /\ dba_obj' = s1
                    /\ \E result \in WildResults : dba_res' = rec(result)
               ELSE IF U32Geq(s2.running_sample_count, s2.num_samples_total)
               THEN /\ dba_obj' = [s2 EXCEPT !.running_sample_count = 0,
                                             !.sum_sqr = F32Zero(0)]
                    /\ dba_res' = rec(mp_obj_new_float(s2.sum_sqr,
                                          s2.running_sample_count, s2.refampl))
               ELSE /\ dba_obj' = s2
                    /\ dba_res' = rec(mp_const_none)
            /\ UNCHANGED reg_vars

(***************************************************************************)
(* lgw_fpga_reg_w called from several threads                              *)
(*                                                                         *)
(* The function takes no lock.  Its locals (r, buf, spi_stat) are on the   *)
(* caller's stack; what callers share is spi_target, the table and the     *)
(* device.  A call is cut at its transport calls: entry up to the first    *)
(* transport call, the read of the read-modify-write path, and the write   *)
(* followed by the closing test on spi_stat.                               *)
(***************************************************************************)
\* the threads that call lgw_fpga_reg_w, one call each
Callers == {1, 2}

\* a caller's position and locals; rd and wr are the positions of its read
\* and of its write among the transport calls of all callers (0: none made)
CallerRec(pc, id, value, buf0, spi_stat, r, m, rd, wr) ==
    [pc |-> pc, id |-> id, value |-> value, buf0 |-> buf0,
     spi_stat |-> spi_stat, ret |-> r, msg |-> m, rd |-> rd, wr |-> wr]

IdleCaller == CallerRec("idle", 0, 0, 0, LGW_SPI_SUCCESS, LGW_REG_SUCCESS, MSG_NONE, 0, 0)

\* the outcomes of a transport call on handle h: on a handle that was
\* closed (its storage released) the call may fail or go through
OnHandle(h, F) == IF h # NULL /\ h \notin live THEN BOOLEAN ELSE F

\* an early return of caller c
Returned(c, register_id, reg_value, m) ==
    [callers EXCEPT ![c] = CallerRec("done", register_id, reg_value, 0,
                                     LGW_SPI_SUCCESS, LGW_REG_ERROR, m, 0, 0)]

\* entry: the checks and the choice of the path
lgw_fpga_reg_w_enter(c, Ids, Vals) ==
    /\ callers[c].pc = "idle"
    /\ \E register_id \in Ids, reg_value \in Vals :
        callers' =
            IF IdOutOfRange(register_id)
            THEN Returned(c, register_id, reg_value, MSG_RANGE)
            ELSE IF Unconnected
            THEN Returned(c, register_id, reg_value, MSG_UNCONNECTED)
            ELSE LET r == fpga_regs[register_id + 1]
                 IN  IF RdOnly(r)
                     THEN Returned(c, register_id, reg_value, MSG_RDONLY)
                     ELSE IF IsDirect(r) \/ (~IsSubByte(r) /\ IsMultiByte(r))
                     THEN [callers EXCEPT ![c].pc = "write", ![c].id = register_id,
                                          ![c].value = reg_value]
                     ELSE IF IsSubByte(r)
                     THEN [callers EXCEPT ![c].pc = "read", ![c].id = register_id,
                                          ![c].value = reg_value]
                     ELSE Returned(c, register_id, reg_value, MSG_GEOMETRY)
    /\ UNCHANGED <<dba_vars, sx1272, fpga_regs, spi_target, live, dev, op, ret, msg,
                   calls, out, pre_dev, pre_spi, connector, bus>>

\* the read of the read-modify-write path: lgw_fpga_spi_r into buf[0]
lgw_fpga_reg_w_read(c, F) ==
    /\ callers[c].pc = "read"
    /\ \E rdOk \in ROutcomesOn(spi_target, OnHandle(spi_target, F)) :
        LET r == fpga_regs[callers[c].id + 1]
            buf0 == IF rdOk THEN dev[r.addr] ELSE 0
        IN  /\ callers' = [callers EXCEPT ![c].pc = "write", ![c].buf0 = buf0,
                                          ![c].spi_stat = @ + SpiStat(rdOk),
                                          ![c].rd = Len(bus) + 1]
            /\ bus' = Append(bus, Call("spi_r", spi_target, FPGA_SPI_MUX_FPGA_REG,
                                       r.addr, IF rdOk THEN <<buf0>> ELSE <<>>, rdOk))
    /\ UNCHANGED <<dba_vars, sx1272, fpga_regs, spi_target, live, dev, op, ret, msg,
                   calls, out, pre_dev, pre_spi, connector>>

\* mutant of OldByte: the byte mixed is the device's byte at the time of the
\* write, as if read and write were one transaction
OldByte_Fresh(c) == dev[fpga_regs[callers[c].id + 1].addr]

\* the old data mixed into the byte written: buf[0], as read earlier
OldByte(c) == callers[c].buf0

\* what the call's one write sends: the byte of the direct path, the mixed
\* byte of the read-modify-write path, the bytes of the multi-byte path
WriteData(c) ==
    LET r == fpga_regs[callers[c].id + 1]
    IN  IF IsDirect(r) THEN <<U8(callers[c].value)>>
        ELSE IF IsSubByte(r) THEN <<MixByte(r, OldByte(c), callers[c].value)>>
        ELSE SplitBytes(callers[c].value, SizeByte(r))

\* the write, the closing test on spi_stat and the return
lgw_fpga_reg_w_write(c, F) ==
    /\ callers[c].pc = "write"
    /\ LET r == fpga_regs[callers[c].id + 1]
           data == WriteData(c)
       IN  \E w \in WOutcomesOn(spi_target, Len(data), OnHandle(spi_target, F)) :
            LET spi_stat == callers[c].spi_stat + SpiStat(w.ok)
            IN  /\ dev' = DevWrite(dev, r.addr, data, w.k)
                /\ callers' = [callers EXCEPT ![c].pc = "done",
                                  ![c].spi_stat = spi_stat,
                                  ![c].ret = Status(spi_stat),
                                  ![c].msg = IF spi_stat = LGW_SPI_SUCCESS
                                             THEN MSG_NONE ELSE MSG_SPI,
                                  ![c].wr = Len(bus) + 1]
                /\ bus' = Append(bus, Call(IF IsDirect(r) \/ IsSubByte(r)
                                           THEN "spi_w" ELSE "spi_wb",
                                           spi_target, FPGA_SPI_MUX_FPGA_REG,
                                           r.addr, data, w.ok))
    /\ UNCHANGED <<dba_vars, sx1272, fpga_regs, spi_target, live, op, ret, msg,
                   calls, out, pre_dev, pre_spi, connector>>

\* the thread that calls lgw_fpga_connect: its position, the result of its
\* last call, and the number of calls it has begun
ConnectorRec(pc, r, m, n) == [pc |-> pc, ret |-> r, msg |-> m, n |-> n]

IdleConnector == ConnectorRec("idle", LGW_REG_SUCCESS, MSG_NONE, 0)

\* what is left unchanged by every step of lgw_fpga_connect
connect_frame == <<dba_vars, sx1272, fpga_regs, dev, op, ret, msg, calls, out,
                   pre_dev, pre_spi, callers>>

\* entry with a handle held: lgw_fpga_spi_close on it; spi_target keeps
\* pointing to the closed handle until the open that follows
lgw_fpga_connect_close ==
    /\ connector.pc = "idle"
    /\ connector.n < MaxConnects
    /\ spi_target # NULL
    /\ live' = live \ {spi_target}
    /\ connector' = [connector EXCEPT !.pc = "open", !.n = @ + 1]
    /\ bus' = Append(bus, Call("close", spi_target, 0, 0, <<>>, TRUE))
    /\ UNCHANGED <<connect_frame, spi_target>>

\* lgw_fpga_spi_open(&spi_target), at entry when no handle is held or after
\* the close, and the return on its failure
lgw_fpga_connect_open(F) ==
    /\ \/ connector.pc = "open"
       \/ connector.pc = "idle" /\ connector.n < MaxConnects /\ spi_target = NULL
    /\ \E openOk \in ROutcomes(F) :
        LET n == IF connector.pc = "idle" THEN connector.n + 1 ELSE connector.n
            h == NewHandle(live)
        IN  IF ~openOk
            THEN /\ connector' = ConnectorRec("idle", LGW_REG_ERROR, MSG_OPEN, n)
                 /\ bus' = Append(bus, Call("open", NULL, 0, 0, <<>>, FALSE))
                 /\ UNCHANGED <<spi_target, live>>
            ELSE /\ connector' = [connector EXCEPT !.pc = "read", !.n = n]
                 /\ spi_target' = h
                 /\ live' = live \cup {h}
                 /\ bus' = Append(bus, Call("open", h, 0, 0, <<>>, TRUE))
    /\ UNCHANGED connect_frame

\* the read of the version register, the tests on it and the return
lgw_fpga_connect_read(F) ==
    /\ connector.pc = "read"
    /\ \E rdOk \in ROutcomesOn(spi_target, F) :
        LET vaddr == fpga_regs[LGW_FPGA_VERSION + 1].addr
            u == dev[vaddr]
        IN  /\ connector' =
                 IF ~rdOk
                 THEN ConnectorRec("idle", LGW_REG_ERROR, MSG_VERSION_READ, connector.n)
                 ELSE IF Handshake(u) # MSG_CONNECTED
                 THEN ConnectorRec("idle", LGW_REG_ERROR, Handshake(u), connector.n)
                 ELSE ConnectorRec("idle", LGW_REG_SUCCESS, MSG_CONNECTED, connector.n)
            /\ bus' = Append(bus, Call("spi_r", spi_target, FPGA_SPI_MUX_FPGA_REG, vaddr,
                                       IF rdOk THEN <<u>> ELSE <<>>, rdOk))
    /\ UNCHANGED <<connect_frame, spi_target, live>>

(***************************************************************************)
(* The program against the table as compiled in                            *)
(***************************************************************************)
\* a device image: the version byte, the free-running timestamp counter
\* (least significant byte first) and the fill of every other byte
DevImage(ver, ts, fill) ==
    [a \in DevAddrs |->
        IF a = 1 THEN ver
        ELSE IF a \in 10..13 THEN ts[a - 9]
        ELSE fill]

\* version bytes a device may answer with
VersionBytes == {0, 17, 18}

\* timestamp counter contents sampled
TimestampImages == {<<120, 86, 52, 146>>}

\* values passed to lgw_fpga_reg_w
WriteValues == {305419896}

\* buffers passed to lgw_fpga_reg_wb
BurstData == {[i \in 1..n |-> 164 + i] : n \in 0..MaxBurst}

\* registers lgw_fpga_reg_w and lgw_fpga_reg_r are called on: a sub-byte
\* field (SOFT_RESET), a byte (FPGA_CTRL), a 16-bit word (HISTO_TEMPO), the
\* read-only registers and one identifier past the table
ScalarIds == {0, 3, 6} \cup {1, 2, 5, 8} \cup {LGW_FPGA_TOTALREGS}

\* registers lgw_fpga_reg_wb is called on: one writable (HISTO_RAM_ADDR),
\* the read-only ones, one past the table
BurstWriteIds == {4} \cup {1, 2, 5, 8} \cup {LGW_FPGA_TOTALREGS}

\* registers lgw_fpga_reg_rb is called on
BurstReadIds == {4, 5, LGW_FPGA_TOTALREGS}

\* registers the read and burst functions are called on with a NULL
\* pointer: one read-only (VERSION), one writable (HISTO_RAM_ADDR) and one
\* past the table
NullCallIds == {1, 4, LGW_FPGA_TOTALREGS}

\* bytes passed to lgw_sx1272_reg_w
SxValues == {129}

NoCall == OpRec("none", 0, 0, <<>>)

NoCalc == CalcRec(Buffer(0, <<0, 0, 0, 0>>), mp_const_none, 0, 0)

\* the state after start-up and the construction of one DBA object
InitModules(Tables, Images, Objs) ==
    /\ fpga_regs \in Tables
    /\ spi_target = NULL
    /\ live = {}
    /\ dev \in Images
    /\ op = NoCall
    /\ ret = LGW_REG_SUCCESS
    /\ msg = MSG_NONE
    /\ calls = <<>>
    /\ out = <<>>
    /\ pre_dev = dev
    /\ pre_spi = NULL
    /\ sx1272 = [a \in SxAddrs |-> 0]
    /\ dba_obj \in Objs
    /\ dba_res = NoCalc
    /\ callers = [c \in Callers |-> IdleCaller]
    /\ connector = IdleConnector
    /\ bus = <<>>

InitWith(Tables, Images) ==
    InitModules(Tables, Images,
                {dba_make_new(10000, RESOLUTION_16_BIT, <<1, 0>>, <<1>>)})

Init ==
    InitWith({fpga_regs_table},
             {DevImage(v, ts, 0) : v \in VersionBytes, ts \in TimestampImages})

\* the transport may fail any call / never fails
AnyFault == BOOLEAN

NoFault == {TRUE}

Next ==
    \/ lgw_fpga_connect(AnyFault)
    \/ lgw_fpga_disconnect
    \/ lgw_fpga_reg_w(ScalarIds, WriteValues, AnyFault)
    \/ lgw_fpga_reg_r(ScalarIds, {VALID_PTR}, AnyFault)
    \/ lgw_fpga_reg_wb(BurstWriteIds, {VALID_PTR}, BurstData, AnyFault)
    \/ lgw_fpga_reg_rb(BurstReadIds, {VALID_PTR}, 0..MaxBurst, AnyFault)
    \/ lgw_fpga_reg_r(NullCallIds, {NULL}, AnyFault)
    \/ lgw_fpga_reg_wb(NullCallIds, {NULL}, BurstData, AnyFault)
    \/ lgw_fpga_reg_rb(NullCallIds, {NULL}, 0..MaxBurst, AnyFault)
    \/ lgw_sx1272_reg_w(SxAddrs, SxValues, AnyFault)
    \/ lgw_sx1272_reg_r(SxAddrs, AnyFault)

Spec == Init /\ [][Next]_vars

(***************************************************************************)
(* The handshake against every version byte                                *)
(***************************************************************************)
InitHandshake ==
    InitWith({fpga_regs_table},
             {DevImage(v, ts, 0) : v \in 0..255, ts \in TimestampImages})

NextHandshake ==
    \/ lgw_fpga_connect(AnyFault)
    \/ lgw_fpga_disconnect

SpecHandshake == InitHandshake /\ [][NextHandshake]_vars

(***************************************************************************)
(* The marshaling code against every descriptor geometry: the descriptor   *)
(* under test replaces FPGA_CTRL, a second field of the same byte          *)
(* replaces HISTO_RAM_ADDR, both at a free address.                        *)
(***************************************************************************)
MaxInt32 == 2147483647

MinInt32 == -2147483647 - 1

Geom(offs, leng, sign) == Reg(-1, 16, offs, sign, leng, FALSE, 0)

SubByteGeoms ==
    {Geom(o, l, sg) : <<o, l, sg>> \in
        {t \in (0..7) \X (1..8) \X BOOLEAN : t[1] + t[2] <= 8}}

MultiByteGeoms == {Geom(0, l, sg) : l \in 9..32, sg \in BOOLEAN}

\* geometries neither path of the code accepts
OtherGeoms == {Geom(4, 8, FALSE), Geom(1, 16, TRUE), Geom(0, 33, FALSE)}

\* a field filling the rest of the byte above (or else below) a sub-byte
\* field, of the other signedness
Sibling(a) ==
    IF ~IsSubByte(a) THEN a
    ELSE IF a.offs + a.leng < 8
    THEN Geom(a.offs + a.leng, 8 - a.offs - a.leng, ~a.sign)
    ELSE IF a.offs > 0 THEN Geom(0, a.offs, ~a.sign)
    ELSE a

GeomTable(a) == [fpga_regs_table EXCEPT ![4] = a, ![5] = Sibling(a)]

\* values written to a field of r.leng bits: the ends of its signed and
\* unsigned ranges, the first values past them, and full-width patterns
ValuesFor(r) ==
    LET L == IF r.leng > 32 THEN 32 ELSE r.leng
        smax == IF L = 32 THEN MaxInt32 ELSE Pow2(L - 1) - 1
        umax == IF L >= 31 THEN MaxInt32 ELSE Pow2(L) - 1
    IN  {0, 1, -1, smax, -smax - 1, umax, 305419896, MinInt32, MaxInt32}
            \cup (IF L < 32 THEN {smax + 1} ELSE {})
            \cup (IF L < 31 THEN {umax + 1} ELSE {})

InitGeom ==
    InitWith({GeomTable(a) : a \in SubByteGeoms \cup MultiByteGeoms \cup OtherGeoms},
             {DevImage(18, ts, 165) : ts \in TimestampImages})

NextGeom ==
    \/ lgw_fpga_connect(NoFault)
    \/ lgw_fpga_reg_w({3}, ValuesFor(fpga_regs[4]), NoFault)
    \/ lgw_fpga_reg_w({4}, {0, -1}, NoFault)
    \/ lgw_fpga_reg_r({3, 4}, {VALID_PTR}, NoFault)

SpecGeom == InitGeom /\ [][NextGeom]_vars

(***************************************************************************)
(* The scalar and burst code against sampled descriptor geometries on a    *)
(* transport that may fail any call: sub-byte fields, the aligned byte, a  *)
(* 12-bit word and a geometry neither path accepts.                        *)
(***************************************************************************)
FaultGeoms ==
    {Geom(2, 3, FALSE), Geom(0, 1, TRUE), Geom(4, 4, TRUE), Geom(0, 8, FALSE),
     Geom(0, 12, TRUE), Geom(4, 8, FALSE)}

InitFault ==
    InitWith({GeomTable(a) : a \in FaultGeoms},
             {DevImage(18, ts, 90) : ts \in TimestampImages})

NextFault ==
    \/ lgw_fpga_connect(AnyFault)
    \/ lgw_fpga_disconnect
    \/ lgw_fpga_reg_w({3, 4}, {0, -1}, AnyFault)
    \/ lgw_fpga_reg_r({3}, {VALID_PTR}, AnyFault)
    \/ lgw_fpga_reg_wb({3}, {VALID_PTR}, BurstData, AnyFault)
    \/ lgw_fpga_reg_rb({3}, {VALID_PTR}, 0..MaxBurst, AnyFault)

SpecFault == InitFault /\ [][NextFault]_vars

(***************************************************************************)
(* The DBA object under repeated calc() calls                              *)
(***************************************************************************)
\* the samples argument of the constructor
DbaSamples == {1, 4}

\* the coeffa, coeffb arguments: first and second order filters with
\* a0 = 1, a first order filter with a0 = 2 (coefficients 0.5), a filter
\* with no feedback coefficient (coeffa holds a0 alone), and a first and a
\* fourth order filter with a0 = 3, whose coefficients are rounded and whose
\* products differ with the way they are accumulated
DbaCoeffs ==
    {<< <<1, 1>>, <<1, 1>> >>, << <<1, 0, 1>>, <<1, 2, 1>> >>,
     << <<2, 1>>, <<1, 1>> >>, << <<1>>, <<1>> >>,
     << <<3, 1>>, <<1, 1>> >>,
     << <<3, 1, 1, 1, 1>>, <<1, 2, 3, 2, 1>> >>}

\* the buffers passed to calc(): empty, a few samples of two contents, and
\* bytearrays of 256 KiB and a little more
DbaBuffers ==
    {Buffer(0, <<255, 255, 255, 255>>),
     Buffer(4, <<2, 1, 0, 0>>),
     Buffer(6, <<255, 255, 255, 255>>),
     Buffer(6, <<2, 1, 0, 0>>),
     Buffer(262144, <<255, 255, 255, 255>>),
     Buffer(262148, <<2, 1, 0, 0>>)}

InitDba ==
    InitModules({fpga_regs_table},
                {DevImage(18, ts, 0) : ts \in TimestampImages},
                {dba_make_new(T, res, c[1], c[2]) :
                    T \in DbaSamples,
                    res \in {RESOLUTION_16_BIT, RESOLUTION_24_BIT},
                    c \in DbaCoeffs})

\* calc() calls made in one run of the scenario
MaxCalc == 3

NextDba == dba_res.ncalls < MaxCalc /\ dba_calc(DbaBuffers)

SpecDba == InitDba /\ [][NextDba]_vars

(***************************************************************************)
(* Two threads write the two fields of one byte                            *)
(***************************************************************************)
\* sub-byte geometries that leave room for a second field in their byte
\* (fields at bit 0 and at bit 3, of every length; the write path does not
\* look at the sign), and one geometry of the direct path
ConcGeoms ==
    {a \in SubByteGeoms : a.leng < 8 /\ ~a.sign /\ a.offs \in {0, 3}}
        \cup {Geom(0, 8, FALSE)}

\* values written: all bits clear, all bits set
ConcValues == {0, -1}

InitConc ==
    InitWith({GeomTable(a) : a \in ConcGeoms},
             {DevImage(18, ts, 165) : ts \in TimestampImages})

\* caller 1 writes register 3, caller 2 register 4, the other field of the
\* same byte
NextConc ==
    \/ lgw_fpga_connect_close
    \/ lgw_fpga_connect_open(NoFault)
    \/ lgw_fpga_connect_read(NoFault)
    \/ \E c \in Callers : lgw_fpga_reg_w_enter(c, {2 + c}, ConcValues)
    \/ \E c \in Callers : lgw_fpga_reg_w_read(c, NoFault)
    \/ \E c \in Callers : lgw_fpga_reg_w_write(c, NoFault)

SpecConc == InitConc /\ [][NextConc]_vars

(***************************************************************************)
(* Vocabulary of the properties                                            *)
(***************************************************************************)
\* the descriptor the last call looked up
Desc == fpga_regs[op.id + 1]

ValidId == op.id < LGW_FPGA_TOTALREGS

\* the geometries the two paths of the code accept
Supported(r) == IsSubByte(r) \/ IsMultiByte(r)

\* bit k of a byte
Bit(x, k) == (x \div Pow2(k)) % 2

\* bit k of the field stored from byte addr on, bits counted from bit 0 of
\* that byte
DevBit(d, addr, k) == Bit(d[addr + (k \div 8)], k % 8)

RECURSIVE FieldSum(_, _, _, _)
\* the unsigned value of the n bits from bit position from on
FieldSum(d, addr, from, n) ==
    IF n = 0 THEN 0
    ELSE DevBit(d, addr, from) + 2 * FieldSum(d, addr, from + 1, n - 1)

\* the two's-complement value of the r.leng bits of field r on device d
SignedField(d, r) ==
    LET low == FieldSum(d, r.addr, r.offs, r.leng - 1)
        top == DevBit(d, r.addr, r.offs + r.leng - 1)
    IN  IF top = 0 THEN low
        ELSE IF r.leng = 32 THEN (low - Pow2(30)) - Pow2(30)
        ELSE low - Pow2(r.leng - 1)

\* v lies in the representable range of a field of r.leng bits
InRange(r, v) ==
    IF r.sign
    THEN r.leng = 32 \/ (-Pow2(r.leng - 1) <= v /\ v <= Pow2(r.leng - 1) - 1)
    ELSE v >= 0 /\ (r.leng >= 31 \/ v <= Pow2(r.leng) - 1)

\* v mod 2^n as an int32 bit pattern
Trunc(v, n) ==
    IF n >= 32 THEN v
    ELSE IF n = 31 THEN (IF v < 0 THEN v - MinInt32 ELSE v)
    ELSE v % Pow2(n)

\* x is the little-endian number whose base-256 digits are bytes
IsLittleEndianOf(x, bytes) ==
    /\ x >= 0
    /\ \A i \in 1..Len(bytes) : (x \div (256 ^ (i - 1))) % 256 = bytes[i]
    /\ Len(bytes) < 4 => x \div (256 ^ Len(bytes)) = 0

RegOps == {"reg_w", "reg_r", "reg_wb", "reg_rb"}

\* the call was given a buffer or an output location: its pointer argument,
\* if it has one, is not NULL (the operations of the claims take values and
\* buffers; a call without one is refused before any other test)
HasArgument == op.ptr # NULL

(***************************************************************************)
(* C1  Connection gating: with no connection held (the initial state, or   *)
(* after a successful disconnect), Write, Read, WriteBurst and ReadBurst   *)
(* with an in-range register id and a non-empty buffer return the          *)
(* not-connected failure and make no transport call.  The calls are those  *)
(* given a buffer or an output location: a NULL one is refused as a NULL   *)
(* pointer before the connection is looked at.                             *)
(***************************************************************************)
C1_ConnectionGating ==
    (/\ op.name \in RegOps
     /\ HasArgument
     /\ pre_spi = NULL
     /\ ValidId
     /\ op.name \in {"reg_wb", "reg_rb"} => op.value >= 1)
        => (/\ ret = LGW_REG_ERROR
            /\ msg = MSG_UNCONNECTED
            /\ calls = <<>>
            /\ dev = pre_dev)

\* a burst write refused after an earlier connection wrote FPGA_CTRL and
\* was disconnected again
C1_Witness ==
    /\ op.name = "reg_wb"
    /\ op.value >= 1
    /\ ValidId
    /\ pre_spi = NULL
    /\ live = {}
    /\ dev[3] = 120
    /\ msg = MSG_UNCONNECTED

(***************************************************************************)
(* C2  A connect() that fails while no connection is held leaves the       *)
(* module disconnected: a Read or Write with a valid id that follows it    *)
(* returns the not-connected failure and makes no transport call.  The     *)
(* Read is one given an output location: a NULL one is refused as a NULL   *)
(* pointer before the connection is looked at.                             *)
(***************************************************************************)
C2_FailedConnectStaysDisconnected ==
    [][(/\ op.name = "connect"
        /\ pre_spi = NULL
        /\ ret = LGW_REG_ERROR
        /\ op'.name \in {"reg_r", "reg_w"}
        /\ op'.ptr # NULL
        /\ op'.id < LGW_FPGA_TOTALREGS)
          => (/\ ret' = LGW_REG_ERROR
              /\ msg' = MSG_UNCONNECTED
              /\ calls' = <<>>)]_vars

(***************************************************************************)
(* C3  Handshake classification: when the transport opens and the read of  *)
(* the version register succeeds with byte u, connect() fails as device    *)
(* absent if u is 0 or 255, fails as version mismatch if u is any other    *)
(* value different from the VERSION default (18), and succeeds exactly     *)
(* when u is that default.                                                 *)
(***************************************************************************)
C3_HandshakeClassification ==
    (/\ op.name = "connect"
     /\ calls # <<>>
     /\ calls[Len(calls)].fn = "spi_r"
     /\ calls[Len(calls)].ok)
        => LET u == pre_dev[fpga_regs_table[LGW_FPGA_VERSION + 1].addr]
               dflt == fpga_regs_table[LGW_FPGA_VERSION + 1].dflt
           IN  /\ calls[Len(calls)].data = <<u>>
               /\ u \in {0, 255} => (ret = LGW_REG_ERROR /\ msg = MSG_ABSENT)
               /\ (u \notin {0, 255} /\ u # dflt)
                    => (ret = LGW_REG_ERROR /\ msg = MSG_VERSION)
               /\ (ret = LGW_REG_SUCCESS) <=> (u = dflt)
               /\ (ret = LGW_REG_SUCCESS) => msg = MSG_CONNECTED

\* the largest byte that is a version mismatch and not an absent device
C3_Witness ==
    /\ op.name = "connect"
    /\ calls # <<>>
    /\ calls[Len(calls)].fn = "spi_r"
    /\ calls[Len(calls)].ok
    /\ pre_dev[1] = 254
    /\ msg = MSG_VERSION

(***************************************************************************)
(* C4  Sibling-bit preservation: a successful Write to a sub-byte field    *)
(* (offs + leng <= 8, not the aligned 8-bit case) leaves every bit of its  *)
(* byte outside [offs, offs + leng) and every other device byte as they    *)
(* were, so the other field of the same byte still reads back what it      *)
(* held.                                                                   *)
(***************************************************************************)
C4_SiblingBitsPreserved ==
    (/\ op.name = "reg_w"
     /\ ret = LGW_REG_SUCCESS
     /\ IsSubByte(Desc)
     /\ ~IsDirect(Desc))
        => (/\ \A a \in DevAddrs \ {Desc.addr} : dev[a] = pre_dev[a]
            /\ \A k \in 0..7 :
                 (k < Desc.offs \/ k >= Desc.offs + Desc.leng)
                    => Bit(dev[Desc.addr], k) = Bit(pre_dev[Desc.addr], k)
            /\ \A j \in {4, 5} :
                 (/\ j # op.id + 1
                  /\ IsSubByte(fpga_regs[j])
                  /\ fpga_regs[j].addr = Desc.addr
                  /\ \/ fpga_regs[j].offs >= Desc.offs + Desc.leng
                     \/ fpga_regs[j].offs + fpga_regs[j].leng <= Desc.offs)
                    => ReadSubByte(fpga_regs[j], dev[Desc.addr])
                         = ReadSubByte(fpga_regs[j], pre_dev[Desc.addr]))

\* a 3-bit field at bit 2 rewritten inside a byte whose other bits are not
\* all zero
C4_Witness ==
    /\ op.name = "reg_w"
    /\ op.id = 3
    /\ ret = LGW_REG_SUCCESS
    /\ Desc.offs = 2
    /\ Desc.leng = 3
    /\ pre_dev[Desc.addr] = 165
    /\ dev[Desc.addr] # pre_dev[Desc.addr]

(***************************************************************************)
(* C5  Round trip: on a transport that does not fail, a Write of a value   *)
(* in the field's representable range to a writable register of supported  *)
(* geometry, immediately followed by a Read of the same register, reads    *)
(* back that value.                                                        *)
(***************************************************************************)
C5_RoundTrip ==
    [][(/\ op.name = "reg_w"
        /\ ret = LGW_REG_SUCCESS
        /\ Supported(Desc)
        /\ InRange(Desc, op.value)
        /\ op'.name = "reg_r"
        /\ op'.id = op.id
        /\ ret' = LGW_REG_SUCCESS)
          => out' = <<op.value>>]_vars

\* the most negative value of a signed 12-bit field read back
C5_Witness ==
    /\ op.name = "reg_r"
    /\ op.id = 3
    /\ ret = LGW_REG_SUCCESS
    /\ Desc.sign
    /\ Desc.leng = 12
    /\ out = <<-2048>>
    /\ dev[Desc.addr] = 0
    /\ dev[Desc.addr + 1] = 248

(***************************************************************************)
(* C6  Write truncates to the field width: a successful Write of v to a    *)
(* writable register of supported geometry and length L leaves the device  *)
(* exactly as a Write of v mod 2^L would.                                  *)
(***************************************************************************)
C6_WriteTruncatesToWidth ==
    (/\ op.name = "reg_w"
     /\ ret = LGW_REG_SUCCESS
     /\ Supported(Desc))
        => dev = DevAfterWrite(pre_dev, Desc, Trunc(op.value, Desc.leng))

(***************************************************************************)
(* C7  Read result range: a successful Read of a register of supported     *)
(* geometry and length L returns a value in [0, 2^L - 1] when the          *)
(* register is unsigned and in [-2^(L-1), 2^(L-1) - 1] when it is signed.  *)
(***************************************************************************)
C7_ReadInRange ==
    (/\ op.name = "reg_r"
     /\ ret = LGW_REG_SUCCESS
     /\ Supported(Desc))
        => (Len(out) = 1 /\ InRange(Desc, out[1]))

(***************************************************************************)
(* C8  Sign extension on read: a successful Read of a signed register of   *)
(* supported geometry returns the two's-complement value of the L field    *)
(* bits stored on the device, whatever the other bits of the byte hold.    *)
(***************************************************************************)
C8_SignExtension ==
    (/\ op.name = "reg_r"
     /\ ret = LGW_REG_SUCCESS
     /\ Supported(Desc)
     /\ Desc.sign)
        => out = <<SignedField(dev, Desc)>>

\* a signed 4-bit field in the high nibble holding 0b1000 under a low
\* nibble of ones reads as -8
C8_Witness ==
    /\ op.name = "reg_r"
    /\ op.id = 3
    /\ ret = LGW_REG_SUCCESS
    /\ Desc.sign
    /\ Desc.leng = 4
    /\ Desc.offs = 4
    /\ dev[Desc.addr] = 143
    /\ out = <<-8>>

(***************************************************************************)
(* C9  Little-endian multi-byte marshaling: a Write to a writable register *)
(* with offs 0 and 8 < L <= 32 issues exactly one burst write of           *)
(* ceil(L/8) bytes at the register's address whose byte i is               *)
(* (value >> 8i) & 0xFF; a Read of such a register issues exactly one      *)
(* burst read of ceil(L/8) bytes and, when the register is unsigned,       *)
(* returns the sum of byte[i] * 256^i.  The Read is one given an output    *)
(* location: a NULL one is refused before any transport call.              *)
(***************************************************************************)
C9_LittleEndianMarshaling ==
    LET n == (Desc.leng + 7) \div 8
    IN  (/\ op.name \in {"reg_w", "reg_r"}
         /\ HasArgument
         /\ pre_spi # NULL
         /\ ValidId
         /\ Desc.offs = 0
         /\ Desc.leng > 8
         /\ Desc.leng <= 32
         /\ op.name = "reg_w" => ~Desc.rdon)
            => (/\ Len(calls) = 1
                /\ calls[1].addr = Desc.addr
                /\ op.name = "reg_w"
                     => (/\ calls[1].fn = "spi_wb"
                         /\ Len(calls[1].data) = n
                         /\ \A i \in 1..n :
                              calls[1].data[i]
                                = (op.value \div (256 ^ (i - 1))) % 256)
                /\ op.name = "reg_r"
                     => (/\ calls[1].fn = "spi_rb"
                         /\ calls[1].ok => Len(calls[1].data) = n
                         /\ (calls[1].ok /\ ~Desc.sign)
                              => (/\ Len(out) = 1
                                  /\ IsLittleEndianOf(out[1], calls[1].data))))

(***************************************************************************)
(* C10  Access control, as claimed: while connected, Write and WriteBurst  *)
(* on a read-only register return the read-only failure, make no transport *)
(* call and leave the device and the connection as they were; Read and     *)
(* ReadBurst on the same registers are not refused as read-only.  The      *)
(* calls are those given a buffer or an output location (not NULL).        *)
(***************************************************************************)
C10_ReadOnlyRejected_AnyBuffer ==
    (/\ pre_spi # NULL
     /\ op.name \in RegOps
     /\ HasArgument
     /\ ValidId
     /\ Desc.rdon)
        => (/\ op.name \in {"reg_w", "reg_wb"}
                 => (/\ ret = LGW_REG_ERROR
                     /\ msg \in {MSG_RDONLY, MSG_RDONLY_BURST}
                     /\ calls = <<>>
                     /\ dev = pre_dev
                     /\ spi_target = pre_spi)
            /\ op.name \in {"reg_r", "reg_rb"}
                 => msg \notin {MSG_RDONLY, MSG_RDONLY_BURST})

(***************************************************************************)
(* C10, amended: the same, for Write and for WriteBurst with a non-empty   *)
(* buffer (an empty buffer is refused as an empty burst before the         *)
(* register is looked at); Read, and ReadBurst with a non-empty buffer,    *)
(* on the same registers call the transport once and succeed when it does. *)
(* The calls are those given a buffer or an output location (not NULL).    *)
(***************************************************************************)
C10_ReadOnlyRejected ==
    (/\ pre_spi # NULL
     /\ op.name \in RegOps
     /\ HasArgument
     /\ ValidId
     /\ Desc.rdon
     /\ op.name \in {"reg_wb", "reg_rb"} => op.value >= 1)
        => (/\ op.name \in {"reg_w", "reg_wb"}
                 => (/\ ret = LGW_REG_ERROR
                     /\ msg = (IF op.name = "reg_w" THEN MSG_RDONLY ELSE MSG_RDONLY_BURST)
                     /\ calls = <<>>
                     /\ dev = pre_dev
                     /\ spi_target = pre_spi)
            /\ op.name \in {"reg_r", "reg_rb"}
                 => (/\ Len(calls) = 1
                     /\ calls[1].fn \in {"spi_r", "spi_rb"}
                     /\ calls[1].addr = Desc.addr
                     /\ (ret = LGW_REG_SUCCESS) <=> calls[1].ok
                     /\ spi_target = pre_spi))

\* a burst write to the read-only TIMESTAMP register refused while a
\* connection is held
C10_Witness ==
    /\ op.name = "reg_wb"
    /\ op.id = 8
    /\ op.value = MaxBurst
    /\ pre_spi # NULL
    /\ pre_spi \in live
    /\ msg = MSG_RDONLY_BURST
    /\ calls = <<>>

(***************************************************************************)
(* C11  Out-of-range identifier, as claimed: in every connection state,    *)
(* Read, Write, ReadBurst and WriteBurst called with a register id >= N    *)
(* return the invalid-identifier failure, make no transport call and leave *)
(* the device and the connection as they were.  The calls are those given  *)
(* a buffer or an output location (not NULL).                              *)
(***************************************************************************)
C11_OutOfRangeId_AnyBuffer ==
    (/\ op.name \in RegOps
     /\ HasArgument
     /\ op.id >= LGW_FPGA_TOTALREGS)
        => (/\ ret = LGW_REG_ERROR
            /\ msg = MSG_RANGE
            /\ calls = <<>>
            /\ out = <<>>
            /\ dev = pre_dev
            /\ spi_target = pre_spi)

(***************************************************************************)
(* C11, amended: the same for Read and Write, and for ReadBurst and        *)
(* WriteBurst with a non-empty buffer (an empty buffer is refused as an    *)
(* empty burst before the identifier is looked at); the identifier is      *)
(* tested before the connection, so the failure is the invalid-identifier  *)
(* one whether or not a handle is held.  The calls are those given a       *)
(* buffer or an output location (not NULL).                                *)
(***************************************************************************)
C11_OutOfRangeId ==
    (/\ op.name \in RegOps
     /\ HasArgument
     /\ op.id >= LGW_FPGA_TOTALREGS
     /\ op.name \in {"reg_wb", "reg_rb"} => op.value >= 1)
        => (/\ ret = LGW_REG_ERROR
            /\ msg = MSG_RANGE
            /\ calls = <<>>
            /\ out = <<>>
            /\ dev = pre_dev
            /\ spi_target = pre_spi)

\* a burst read with an identifier past the table refused as such while no
\* connection is held
C11_Witness ==
    /\ op.name = "reg_rb"
    /\ op.id = LGW_FPGA_TOTALREGS
    /\ op.value >= 1
    /\ pre_spi = NULL
    /\ spi_target = NULL
    /\ msg = MSG_RANGE
    /\ calls = <<>>

(***************************************************************************)
(* C12  A transport failure aborts the operation: when the byte read of a  *)
(* sub-byte Write (the read-modify-write path) fails, Write returns the    *)
(* transport failure, issues no transport write after it, and the device   *)
(* is left as it was.                                                      *)
(***************************************************************************)
C12_FailedReadAbortsWrite ==
    (/\ op.name = "reg_w"
     /\ calls # <<>>
     /\ calls[1].fn = "spi_r"
     /\ ~calls[1].ok)
        => (/\ ret = LGW_REG_ERROR
            /\ msg = MSG_SPI
            /\ Len(calls) = 1
            /\ dev = pre_dev)

(***************************************************************************)
(* C13  disconnect(): called while Connected (an open transport handle is  *)
(* held) it closes that handle exactly once, moves to Disconnected and     *)
(* reports success; called while Disconnected (no open handle is held) it  *)
(* returns the already-disconnected result, calls no transport operation   *)
(* and leaves the state Disconnected.  Hence the second of two consecutive *)
(* disconnect() calls always returns the already-disconnected result.      *)
(***************************************************************************)
C13_Disconnect ==
    [][op'.name = "disconnect"
         => /\ IF spi_target # NULL /\ spi_target \in live
               THEN /\ ret' = LGW_REG_SUCCESS
                    /\ msg' = MSG_DISCONNECTED
                    /\ calls' = <<Call("close", spi_target, 0, 0, <<>>, TRUE)>>
                    /\ live' = live \ {spi_target}
               ELSE /\ ret' = LGW_REG_ERROR
                    /\ msg' = MSG_ALREADY
                    /\ calls' = <<>>
                    /\ live' = live
            /\ spi_target' = NULL
            /\ dev' = dev
            /\ op.name = "disconnect" => msg' = MSG_ALREADY]_vars

(***************************************************************************)
(* C14  At most one live transport handle: after any sequence of calls at  *)
(* most one handle is open; connect() called while a handle is held closes *)
(* that handle before opening a new one; and close is never invoked on a   *)
(* handle that has already been closed.                                    *)
(***************************************************************************)
C14_OneLiveHandle ==
    [][/\ Cardinality(live') <= 1
       /\ (op'.name = "connect" /\ spi_target # NULL)
            => (/\ Len(calls') >= 2
                /\ calls'[1].fn = "close"
                /\ calls'[1].h = spi_target
                /\ calls'[2].fn = "open")
       /\ \A i \in 1..Len(calls') :
            calls'[i].fn = "close" => calls'[i].h \in live]_vars

(***************************************************************************)
(* C15  The two passthrough operations to the SX1272 (raw byte write and   *)
(* raw byte read) are gated like the register operations: called while no  *)
(* connection is held they fail as not connected and do not invoke the     *)
(* transport, so they never hand it an absent handle.                      *)
(***************************************************************************)
C15_PassthroughGated ==
    (/\ op.name \in {"sx1272_reg_w", "sx1272_reg_r"}
     /\ pre_spi = NULL)
        => (/\ ret = LGW_REG_ERROR
            /\ msg = MSG_UNCONNECTED
            /\ calls = <<>>
            /\ \A i \in 1..Len(calls) : calls[i].h # NULL)

(***************************************************************************)
(* C16  Raw burst pass-through: with a handle held and a valid id,         *)
(* WriteBurst on a writable descriptor and ReadBurst with a buffer of      *)
(* n >= 1 bytes issue exactly one transport burst of exactly n bytes at    *)
(* the descriptor's address, the bytes passed through unmodified whatever  *)
(* the descriptor's offset, length and sign; with n = 0 both return the    *)
(* empty-burst failure and issue no transport call.  The buffer is a       *)
(* buffer (not NULL).                                                      *)
(***************************************************************************)
C16_BurstPassThrough ==
    (/\ op.name \in {"reg_wb", "reg_rb"}
     /\ HasArgument
     /\ pre_spi # NULL
     /\ ValidId
     /\ op.name = "reg_wb" => ~Desc.rdon)
        => IF op.value = 0
           THEN /\ ret = LGW_REG_ERROR
                /\ msg = MSG_NULL_BURST
                /\ calls = <<>>
                /\ dev = pre_dev
           ELSE /\ Len(calls) = 1
                /\ calls[1].h = pre_spi
                /\ calls[1].mux = FPGA_SPI_MUX_FPGA_REG
                /\ calls[1].addr = Desc.addr
                /\ (ret = LGW_REG_SUCCESS) <=> calls[1].ok
                /\ op.name = "reg_wb"
                     => (/\ calls[1].fn = "spi_wb"
                         /\ Len(op.data) = op.value
                         /\ calls[1].data = op.data
                         /\ calls[1].ok
                              => dev = DevWrite(pre_dev, Desc.addr, op.data,
                                                op.value))
                /\ op.name = "reg_rb"
                     => (/\ calls[1].fn = "spi_rb"
                         /\ dev = pre_dev
                         /\ calls[1].ok
                              => (/\ Len(out) = op.value
                                  /\ out = calls[1].data
                                  /\ out = DevRead(pre_dev, Desc.addr,
                                                   op.value)))

\* two distinct bytes burst-written through a descriptor whose geometry
\* (8 bits at bit 4) no scalar path accepts
C16_Witness ==
    /\ op.name = "reg_wb"
    /\ op.id = 3
    /\ Desc.offs = 4
    /\ Desc.leng = 8
    /\ op.value = 2
    /\ ret = LGW_REG_SUCCESS
    /\ pre_dev[Desc.addr] = 90
    /\ dev[Desc.addr] = 165
    /\ dev[Desc.addr + 1] = 166

(***************************************************************************)
(* C17  Distinguishable errors: the result returned to the caller          *)
(* identifies the error kind, so two calls failing for different reasons   *)
(* (invalid identifier, not connected, read-only, unsupported geometry,    *)
(* empty buffer, transport error, device absent, version mismatch) return  *)
(* different results; and no failing call returns the success result.      *)
(***************************************************************************)
ErrorKind(m) ==
    IF m = MSG_RANGE THEN "InvalidRegisterId"
    ELSE IF m = MSG_UNCONNECTED THEN "NotConnected"
    ELSE IF m \in {MSG_RDONLY, MSG_RDONLY_BURST} THEN "ReadOnlyViolation"
    ELSE IF m = MSG_GEOMETRY THEN "UnsupportedGeometry"
    ELSE IF m = MSG_NULL_BURST THEN "EmptyBuffer"
    ELSE IF m \in {MSG_SPI, MSG_SPI_WB, MSG_SPI_RB, MSG_OPEN, MSG_VERSION_READ}
    THEN "TransportError"
    ELSE IF m = MSG_ABSENT THEN "DeviceAbsent"
    ELSE IF m = MSG_VERSION THEN "VersionMismatch"
    ELSE "none"

C17_DistinguishableErrors ==
    [][/\ ErrorKind(msg') # "none" => ret' # LGW_REG_SUCCESS
       /\ (/\ ErrorKind(msg) # "none"
           /\ ErrorKind(msg') # "none"
           /\ ErrorKind(msg) # ErrorKind(msg'))
            => ret # ret']_vars

(***************************************************************************)
(* C18  The connection state changes only through connect() and            *)
(* disconnect(): every Read, Write, ReadBurst, WriteBurst and passthrough  *)
(* call, failing or not, leaves the held handle and the set of open        *)
(* handles as they were; and no operation modifies the register table.     *)
(***************************************************************************)
C18_ConnectionFrame ==
    [][/\ fpga_regs' = fpga_regs
       /\ op'.name \notin {"connect", "disconnect"}
            => (/\ spi_target' = spi_target
                /\ live' = live
                /\ pre_spi' = spi_target)]_vars

\* a passthrough write the transport reported as failed after the byte
\* reached the SX1272, with the handle still held and open
C18_Witness ==
    /\ op.name = "sx1272_reg_w"
    /\ ret = LGW_SPI_ERROR
    /\ sx1272[op.id] = op.value
    /\ pre_dev = dev
    /\ spi_target = pre_spi
    /\ spi_target # NULL
    /\ spi_target \in live

(***************************************************************************)
(* C19  DBA.calc() accumulation: for an object built with samples = T,     *)
(* each calc(buffer) adds the number of samples in the buffer (its length  *)
(* / 2 for B16, / 4 for B24) to the running count; it returns None exactly *)
(* when the running count after the call is below T and a dBA result       *)
(* exactly when it is >= T, and then the running count and the sum of      *)
(* squares are back to zero; the filter history indices stay within        *)
(* 0..num_coeff-1 (so no store leaves the history arrays).                 *)
(***************************************************************************)
SamplesIn(buf, resolution) ==
    IF resolution = RESOLUTION_24_BIT THEN buf.len \div 4 ELSE buf.len \div 2

\* the positions a history index may take in a history of n values
HistoryRange(n) == IF n = 0 THEN {0} ELSE 0..(n - 1)

C19_CalcAccumulation ==
    dba_res.ncalls > 0
        => LET after == dba_res.pre_count
                          + SamplesIn(dba_res.buf, dba_obj.resolution)
           IN  /\ ~dba_obj.wild
               /\ dba_res.ret.is_none <=> after < dba_obj.num_samples_total
               /\ dba_res.ret.is_none
                    => dba_obj.running_sample_count = after
               /\ ~dba_res.ret.is_none
                    => (/\ dba_res.ret.count = after
                        /\ dba_obj.running_sample_count = 0
                        /\ dba_obj.sum_sqr = F32Zero(0))
               /\ dba_obj.i_a \in HistoryRange(dba_obj.num_coeff_a)
               /\ dba_obj.i_b \in HistoryRange(dba_obj.num_coeff_b)

(***************************************************************************)
(* C20  Fast-path equivalence: for a writable descriptor of 8 bits at bit  *)
(* 0, Write issues exactly one transport byte write and no read, and for   *)
(* every prior device byte the byte it stores is the one the general       *)
(* formula (old & ~mask) | ((value << offs) & mask) gives with mask 0xFF;  *)
(* every other sub-byte Write issues exactly one byte read followed by     *)
(* exactly one byte write to the same address.                             *)
(***************************************************************************)
GeneralFormula(old, value, offs, leng) ==
    LET mask == U8((Pow2(leng) - 1) * Pow2(offs))
    IN  BitOr(BitAnd(old, 255 - mask, 8),
              BitAnd(U8(U8(value) * Pow2(offs)), mask, 8), 8)

C20_FastPathEquivalence ==
    (/\ op.name = "reg_w"
     /\ pre_spi # NULL
     /\ ValidId
     /\ ~Desc.rdon
     /\ Desc.offs + Desc.leng <= 8)
        => IF Desc.leng = 8 /\ Desc.offs = 0
           THEN /\ Len(calls) = 1
                /\ calls[1].fn = "spi_w"
                /\ calls[1].addr = Desc.addr
                /\ \A old \in 0..255 :
                     /\ calls[1].data = <<GeneralFormula(old, op.value, 0, 8)>>
                     /\ calls[1].ok
                          => dev[Desc.addr] = GeneralFormula(old, op.value, 0, 8)
           ELSE /\ Len(calls) = 2
                /\ calls[1].fn = "spi_r"
                /\ calls[1].addr = Desc.addr
                /\ calls[2].fn = "spi_w"
                /\ calls[2].addr = Desc.addr
                /\ (calls[1].ok /\ calls[2].ok)
                     => dev[Desc.addr]
                          = GeneralFormula(pre_dev[Desc.addr], op.value,
                                           Desc.offs, Desc.leng)

\* 0x12345678 written to an aligned 8-bit register holding 0xA5: one byte
\* write of 0x78
C20_Witness ==
    /\ op.name = "reg_w"
    /\ op.id = 3
    /\ Desc.leng = 8
    /\ Desc.offs = 0
    /\ op.value = 305419896
    /\ pre_dev[Desc.addr] = 165
    /\ Len(calls) = 1
    /\ calls[1].fn = "spi_w"
    /\ dev[Desc.addr] = 120

\* the register caller c writes
FieldOf(c) == fpga_regs[callers[c].id + 1]

\* the bits of field r inside byte b, as an unsigned number
ByteField(b, r) == (b \div Pow2(r.offs)) % Pow2(r.leng)

\* the device holds, in the field caller c wrote, the value c wrote
HoldsWritten(c) ==
    ByteField(dev[FieldOf(c).addr], FieldOf(c))
        = Trunc(callers[c].value, FieldOf(c).leng)

\* both calls have returned success after a read-modify-write each, on two
\* fields of one byte that do not overlap
BothWrote ==
    /\ \A c \in Callers :
         /\ callers[c].pc = "done"
         /\ callers[c].ret = LGW_REG_SUCCESS
         /\ callers[c].rd > 0
         /\ callers[c].wr > 0
    /\ callers[1].id # callers[2].id
    /\ FieldOf(1).addr = FieldOf(2).addr
    /\ \/ FieldOf(1).offs >= FieldOf(2).offs + FieldOf(2).leng
       \/ FieldOf(2).offs >= FieldOf(1).offs + FieldOf(1).leng

\* caller c ran from its read to its write before the other caller d read
RanBefore(c, d) == callers[c].wr < callers[d].rd

\* both reads came before either write, and c wrote first
Interleaved(c, d) ==
    /\ callers[c].rd < callers[d].wr
    /\ callers[d].rd < callers[c].wr
    /\ callers[c].wr < callers[d].wr

(***************************************************************************)
(* C21  No internal serialization: when two callers run Write on two       *)
(* different sub-byte fields of one byte and both return success, then     *)
(* (a) if one call ran to completion before the other started, in either   *)
(* order, both fields hold the values written to them; (b) if both byte    *)
(* reads came before either byte write, the field written last holds its   *)
(* value and the field written first holds the bits it had before the two  *)
(* calls, so its update is lost whenever the value written differs from    *)
(* those bits.                                                             *)
(***************************************************************************)
C21_NoSerialization ==
    BothWrote =>
        \A c, d \in Callers :
            c # d =>
                /\ RanBefore(c, d) => (HoldsWritten(c) /\ HoldsWritten(d))
                /\ Interleaved(c, d) =>
                     /\ HoldsWritten(d)
                     /\ callers[c].buf0 = callers[d].buf0
                     /\ ByteField(dev[FieldOf(c).addr], FieldOf(c))
                          = ByteField(callers[d].buf0, FieldOf(c))

\* both calls returned success, both reads came before either write, and
\* the field written first does not hold the value written to it
C21_Witness ==
    /\ BothWrote
    /\ \E c, d \in Callers :
         /\ c # d
         /\ Interleaved(c, d)
         /\ ~HoldsWritten(c)
         /\ HoldsWritten(d)

\* the two calls one after the other, caller 2 first, both fields holding
\* the values written
C21_WitnessSequential ==
    /\ BothWrote
    /\ RanBefore(2, 1)
    /\ HoldsWritten(1)
    /\ HoldsWritten(2)
    /\ callers[1].value # callers[2].value

====
